---------------------------- MODULE Spec2Model ----------------------------
(***************************************************************************)
(* A model of the goose agent core: the extension manager                  *)
(* (crates/goose/src/agents/extension_manager.rs) and the agent's reply    *)
(* loop (crates/goose/src/agents/agent.rs).                                *)
(*                                                                         *)
(* Strings are sequences of one-character strings, so that prefix tests,   *)
(* prefix stripping and name normalisation are computed as the code        *)
(* computes them.  An Option is a set with at most one element.            *)
(***************************************************************************)
EXTENDS Integers, Sequences, FiniteSets, TLC

VARIABLES
    extension_manager,    \* Agent.extension_manager: clients, instructions, resource_capable_extensions
    frontend_tools,       \* Agent.frontend_tools: names of the registered frontend tools
    frontend_instructions,\* Agent.frontend_instructions: None or Some(text)
    router_tool_selector, \* Agent.router_tool_selector: None or Some(strategy)
    mgrRet,               \* the last manager / agent operation: its argument and its result
    pc,                   \* where Agent::reply is: "idle" before the call, "failed" when it returned an error, "done" once its stream has ended
    goose_mode,           \* reply: goose_mode
    max_turns,            \* reply: max_turns
    final_output_tool,    \* Agent.final_output_tool: None, or Some of its final_output (itself an Option)
    turns_taken,          \* reply: turns_taken
    provider_calls,       \* the number of generate_response_from_provider calls made by this reply
    messages,             \* reply: messages, the conversation history
    tools,                \* reply: tools, as the extension keys whose prefixed tools the list holds
    mcp_notification_rx,  \* Agent.mcp_notification_rx: the buffered subagent notifications
    response,             \* the provider's response of this turn: its tool requests, in order
    permission_check_result, \* the gate's classification of each remaining request id
    idx,                  \* the position of the for loop now running over the requests
    tool_futures,         \* reply: tool_futures, the (request id, ToolStream) pairs of this turn
    message_tool_response,\* reply: message_tool_response, the tool-response bundle being built
    all_install_successful, \* reply: all_install_successful
    yielded,              \* the events the last step of the stream yielded, in order
    provider_result,      \* what the last step got from the provider: the outcome, usage.model, as_lead_worker(), the number of tool requests; None when that step made no provider call
    mode_settings,        \* reply: the GOOSE_MODE and execution_mode the last step read; None when that step read none
    system_prompt_extras, \* PromptManager: the texts added to the system prompt
    client_mutex, \* McpClientBox: for each client whose mutex is locked, the call that holds the guard
    client_calls, \* for each call on a client that is running: the client, the operations on it still to run, the place in the first of them
    posts, \* GoogleProvider::post: for each call that has started, its place in the function, the locals retries and total_delay, the HTTP requests sent, the last response and what it returned
    task                  \* the task whose locks are followed: the operation it runs, its place in it, the guards it holds, what it awaits

mgrVars == <<extension_manager, frontend_tools, frontend_instructions, router_tool_selector, mgrRet>>

replyVars ==
    <<pc, goose_mode, max_turns, final_output_tool, turns_taken, provider_calls,
      messages, tools, mcp_notification_rx, response, permission_check_result, idx,
      tool_futures, message_tool_response, all_install_successful, yielded,
      provider_result, mode_settings>>

taskVars == <<task>>

promptVars == <<system_prompt_extras>>

clientVars == <<client_mutex, client_calls>>

postVars == <<posts>>

vars == <<mgrVars, replyVars, taskVars, promptVars, clientVars, postVars>>

-----------------------------------------------------------------------------
(* Strings *)

None == {}

Some(x) == {x}

\* str::starts_with
StartsWith(s, p) ==
    /\ Len(p) <= Len(s)
    /\ SubSeq(s, 1, Len(p)) = p

\* str::strip_prefix: Some(rest) when s starts with p, None otherwise
strip_prefix(s, p) ==
    IF StartsWith(s, p) THEN Some(SubSeq(s, Len(p) + 1, Len(s))) ELSE None

Sep == <<"_", "_">>

\* format!("{}__{}", name, tool.name)
Prefixed(key, tool) == key \o Sep \o tool

AsciiLower == {"a", "b", "c", "f", "l", "m", "o", "p", "r", "s", "t", "u"}

AsciiUpper == {"A", "B"}

AsciiDigit == {"0", "1", "2", "3", "4", "5", "6", "7", "8", "9"}

Whitespace == {" "}

\* char::is_ascii_alphanumeric
is_ascii_alphanumeric(c) == c \in AsciiLower \cup AsciiUpper \cup AsciiDigit

\* char::to_lowercase on the characters normalize lets through
to_lowercase_char(c) ==
    CASE c = "A" -> "a"
      [] c = "B" -> "b"
      [] OTHER -> c

RECURSIVE normalize_chars(_)
normalize_chars(input) ==
    IF input = <<>> THEN <<>>
    ELSE LET c == Head(input)
             rest == normalize_chars(Tail(input))
         IN  IF is_ascii_alphanumeric(c) \/ c = "_" \/ c = "-" THEN <<c>> \o rest
             ELSE IF c \in Whitespace THEN rest
             ELSE <<"_">> \o rest

\* A variant of normalize that leaves the case of the letters alone
normalize_keeps_case(input) == normalize_chars(input)

\* fn normalize(input: String) -> String
normalize(input) ==
    LET r == normalize_chars(input)
    IN  [i \in 1..Len(r) |-> to_lowercase_char(r[i])]

-----------------------------------------------------------------------------
(* Inputs of the extension manager *)

\* The names extension configurations carry (ExtensionConfig::key / name),
\* before normalisation: plain, upper case, with whitespace and a non-ASCII
\* character.  One normalised name is a string prefix of the others.
RawNames ==
    { <<"a">>, <<"A", "b">>, <<"a", " ", "<U+1F680>">> }

\* ExtensionConfig; Sse and StreamableHttp go through the steps of Stdio
ConfigKinds == {"Stdio", "Builtin", "Frontend"}

\* The tool names a client may be asked for
ToolNames == { <<"t">>, <<"t", "_", "_", "u">>, <<"u">> }

\* The tools a connected client may serve (no client serves <<"u">>)
ClientToolSets == { {<<"t">>, <<"t", "_", "_", "u">>} }

Keys == { normalize(n) : n \in RawNames }

\* Names a provider may put in a ToolCall: every prefixed name, and names
\* with no separator, a single underscore, or an unknown prefix.
CallNames ==
    { Prefixed(k, t) : k \in Keys, t \in ToolNames }
        \cup { <<"a">>, <<"a", "_", "t">>, <<"b", "_", "_", "t">>, <<"_", "a", "_", "_", "t">> }

\* The steps of add_extension that can fail, in order
AddSteps == {"secret", "start", "connect", "initialize"}

\* No operation is running
IdleTask ==
    [op |-> [op |-> "idle", tool |-> "none", rejected |-> FALSE, flag |-> FALSE],
     pos |-> 0, held |-> {}, awaiting |-> "none"]

NoRet ==
    [op |-> "none", arg |-> <<>>, result |-> "Ok", step |-> "none",
     client |-> None, tool |-> None, called |-> None, loaded |-> FALSE,
     processed |-> FALSE, filter |-> None, failed |-> {}, listed |-> {},
     uri |-> FALSE, candidates |-> {},
     prompt |-> [text |-> "", enabled_extensions_count |-> 0, total_tools |-> 0],
     normalized |-> <<>>, system_prompt |-> {}, action |-> "", backend |-> "none",
     init |-> None]

-----------------------------------------------------------------------------
(* ExtensionManager *)

\* HashMap::new
EmptyMap == [x \in {} |-> {}]

\* HashMap::insert
Insert(map, k, v) == [x \in DOMAIN map \cup {k} |-> IF x = k THEN v ELSE map[x]]

\* HashMap::remove
Remove(map, k) == [x \in DOMAIN map \ {k} |-> map[x]]

\* ExtensionManager::new
new ==
    [clients |-> EmptyMap, instructions |-> EmptyMap, resource_capable_extensions |-> {}]

\* A variant of add_extension that registers the client before the initialize
\* handshake has succeeded
add_extension_early_insert(m, config, init) ==
    LET sanitized_name == normalize(config.name)
        inserted == [m EXCEPT !.clients = Insert(m.clients, sanitized_name, init.client)]
    IN  CASE init.step = "secret" -> [mgr |-> m, result |-> "SetupError"]
          [] init.step \in {"start", "connect"} -> [mgr |-> m, result |-> "TransportError"]
          [] init.step = "initialize" -> [mgr |-> inserted, result |-> "Initialization"]
          [] OTHER ->
                [mgr |->
                    [inserted EXCEPT
                        !.instructions =
                            IF init.instructions # None
                                THEN Insert(m.instructions, sanitized_name,
                                            CHOOSE i \in init.instructions : TRUE)
                                ELSE m.instructions,
                        !.resource_capable_extensions =
                            IF init.resources
                                THEN m.resource_capable_extensions \cup {sanitized_name}
                                ELSE m.resource_capable_extensions],
                 result |-> "Ok"]

\* ExtensionManager::add_extension.  `init` is what the outside world answers:
\* step is the first step that fails ("ok": none does), instructions and
\* resources are the fields of the InitializeResult, client is the connected
\* client.  Every `?` of the function returns before the first insertion.
add_extension(m, config, init) ==
    LET sanitized_name == normalize(config.name)
    IN  CASE init.step = "secret" -> [mgr |-> m, result |-> "SetupError"]
          [] init.step \in {"start", "connect"} -> [mgr |-> m, result |-> "TransportError"]
          [] init.step = "initialize" -> [mgr |-> m, result |-> "Initialization"]
          [] OTHER ->
                [mgr |->
                    [clients |-> Insert(m.clients, sanitized_name, init.client),
                     instructions |->
                        IF init.instructions # None
                            THEN Insert(m.instructions, sanitized_name, CHOOSE i \in init.instructions : TRUE)
                            ELSE m.instructions,
                     resource_capable_extensions |->
                        IF init.resources
                            THEN m.resource_capable_extensions \cup {sanitized_name}
                            ELSE m.resource_capable_extensions],
                 result |-> "Ok"]

\* A variant of remove_extension that forgets the instructions and the
\* resource flag
remove_extension_clients_only(m, name) ==
    [mgr |-> [m EXCEPT !.clients = Remove(m.clients, normalize(name))],
     result |-> "Ok"]

\* A variant of remove_extension that leaves the resource-capable set alone
remove_extension_keeps_resources(m, name) ==
    [mgr |-> [m EXCEPT !.clients = Remove(m.clients, normalize(name)),
                       !.instructions = Remove(m.instructions, normalize(name))],
     result |-> "Ok"]

\* ExtensionManager::remove_extension
remove_extension(m, name) ==
    LET sanitized_name == normalize(name)
    IN  [mgr |->
            [clients |-> Remove(m.clients, sanitized_name),
             instructions |-> Remove(m.instructions, sanitized_name),
             resource_capable_extensions |-> m.resource_capable_extensions \ {sanitized_name}],
         result |-> "Ok"]

\* ExtensionManager::get_client_for_tool: HashMap::iter().find() returns the
\* first key, in the map's unspecified iteration order, that the name starts
\* with; this is the set of keys it may return (empty: None).
get_client_for_tool(m, prefixed_name) ==
    { key \in DOMAIN m.clients : StartsWith(prefixed_name, key) }

\* ExtensionManager::dispatch_tool_call with get_client_for_tool having
\* returned client_name: strip the key, then "__"; the future is lazy, no
\* call_tool is made before it is awaited.
dispatch_tool_call(m, name, client_name) ==
    LET rest == strip_prefix(name, client_name)
        tool_name == IF rest = None THEN None
                     ELSE strip_prefix(CHOOSE r \in rest : TRUE, Sep)
    IN  IF tool_name = None
            THEN [result |-> "NotFound", client |-> None, tool |-> None]
            ELSE [result |-> "Ok", client |-> Some(client_name), tool |-> tool_name]

\* McpClientTrait::call_tool as seen through the result future: the content
\* on success, ToolError::ExecutionError when the client fails the call.
call_tool(client, tool_name) ==
    IF tool_name \in client.tools THEN "Ok" ELSE "ExecutionError"

\* ExtensionManager::get_prefixed_tools: every filtered client is asked for
\* its tools, page after page; `failed` holds the keys of the clients whose
\* list_tools (or whose spawned task) fails.  The first error met in the
\* joined results is returned and the tools of the other clients are dropped.
\* The Vec<Tool> is the set of (key, prefixed name) pairs, one for each tool
\* of each client.
get_prefixed_tools(m, extension_name, failed) ==
    LET filtered_clients ==
            { name \in DOMAIN m.clients : extension_name = None \/ name \in extension_name }
    IN  IF filtered_clients \cap failed # {}
            THEN [result |-> "Err", tools |-> {}]
            ELSE [result |-> "Ok",
                  tools |-> UNION { { [key |-> name, name |-> Prefixed(name, t)] :
                                        t \in m.clients[name].tools } :
                                    name \in filtered_clients }]

\* ExtensionManager::read_resource_from_extension; `failed` holds the keys of
\* the clients whose read_resource fails
read_resource_from_extension(m, extension_name, failed) ==
    IF extension_name \notin DOMAIN m.clients THEN "InvalidParameters"
    ELSE IF extension_name \in failed THEN "ExecutionError"
    ELSE "Ok"

\* ExtensionManager::read_resource.  With no extension named, the
\* resource-capable extensions are tried in the set's iteration order and
\* the first success is returned: `from` is the set of extensions the answer
\* may come from.  When none succeeds the error names the loaded extensions.
read_resource(m, uri, extension_name, failed) ==
    LET found == { e \in m.resource_capable_extensions :
                      read_resource_from_extension(m, e, failed) = "Ok" }
    IN  IF ~uri
            THEN [result |-> "InvalidParameters", from |-> {}, candidates |-> {}]
        ELSE IF extension_name # None
            THEN LET e == CHOOSE x \in extension_name : TRUE
                     r == read_resource_from_extension(m, e, failed)
                 IN  [result |-> r, from |-> IF r = "Ok" THEN {e} ELSE {},
                      candidates |-> IF r = "InvalidParameters" THEN DOMAIN m.clients ELSE {}]
        ELSE IF found # {}
            THEN [result |-> "Ok", from |-> found, candidates |-> {}]
        ELSE [result |-> "InvalidParameters", from |-> {}, candidates |-> DOMAIN m.clients]

\* ExtensionManager::list_resources_from_extension; `failed` holds the keys of
\* the clients whose list_resources fails
list_resources_from_extension(m, extension_name, failed) ==
    IF extension_name \notin DOMAIN m.clients THEN "InvalidParameters"
    ELSE IF extension_name \in failed THEN "ExecutionError"
    ELSE "Ok"

\* ExtensionManager::list_resources.  With no extension named, every
\* resource-capable extension is asked; the errors are logged and the
\* resources of the others (`from`), or none, are returned as a success.
list_resources(m, extension, failed) ==
    IF extension # None
        THEN LET e == CHOOSE x \in extension : TRUE
                 r == list_resources_from_extension(m, e, failed)
             IN  [result |-> r, from |-> IF r = "Ok" THEN {e} ELSE {}, candidates |-> {}]
        ELSE [result |-> "Ok",
              from |-> { e \in m.resource_capable_extensions :
                            list_resources_from_extension(m, e, failed) = "Ok" },
              candidates |-> {}]

MIN_EXTENSIONS == 5

MIN_TOOLS == 50

\* A variant of suggest_disable_extensions_prompt that advises at the limits
suggest_disable_extensions_prompt_at_limit(m, failed) ==
    LET enabled_extensions_count == Cardinality(DOMAIN m.clients)
        r == get_prefixed_tools(m, None, failed)
        total_tools == IF r.result = "Ok" THEN Cardinality(r.tools) ELSE 0
    IN  [text |-> IF enabled_extensions_count >= MIN_EXTENSIONS \/ total_tools >= MIN_TOOLS
                      THEN "advice" ELSE "",
         enabled_extensions_count |-> enabled_extensions_count,
         total_tools |-> total_tools]

\* ExtensionManager::suggest_disable_extensions_prompt: the Value::String it
\* returns, "" or the advice, with the two counts the advice is formatted
\* from; a failed listing counts as no tool (unwrap_or(0)).
suggest_disable_extensions_prompt(m, failed) ==
    LET enabled_extensions_count == Cardinality(DOMAIN m.clients)
        r == get_prefixed_tools(m, None, failed)
        total_tools == IF r.result = "Ok" THEN Cardinality(r.tools) ELSE 0
    IN  [text |-> IF enabled_extensions_count > MIN_EXTENSIONS \/ total_tools > MIN_TOOLS
                      THEN "advice" ELSE "",
         enabled_extensions_count |-> enabled_extensions_count,
         total_tools |-> total_tools]

FINAL_OUTPUT_TOOL_NAME == <<"f">>

Platform == <<"p", "l", "a", "t", "f", "o", "r", "m">>

\* ExtensionManager::supports_resources
supports_resources(m) == m.resource_capable_extensions # {}

\* Agent::list_tools: the manager's error becomes the empty list
\* (unwrap_or_default), then the platform tools are added
\* (search_available_extensions, manage_extensions, manage_schedule), the
\* subagent tool when ALPHA_FEATURES is set, the resource tools
\* (read_resource, list_resources) when an extension serves resources, and
\* the final-output tool `fot` when one is registered.  No sub-recipe is
\* registered.
list_tools(m, extension_name, failed, alpha_features, fot) ==
    LET PlatformTools ==
            { [key |-> Platform, name |-> Prefixed(Platform, <<"s">>)],
              [key |-> Platform, name |-> Prefixed(Platform, <<"m">>)],
              [key |-> Platform, name |-> Prefixed(Platform, <<"c">>)] }
        SubagentTools ==
            { [key |-> <<"s", "u", "b">>, name |-> Prefixed(<<"s", "u", "b">>, <<"r">>)] }
        ResourceTools ==
            { [key |-> Platform, name |-> Prefixed(Platform, <<"r">>)],
              [key |-> Platform, name |-> Prefixed(Platform, <<"l">>)] }
        FinalOutputTools == { [key |-> FINAL_OUTPUT_TOOL_NAME, name |-> FINAL_OUTPUT_TOOL_NAME] }
        r == get_prefixed_tools(m, extension_name, failed)
        prefixed_tools == IF r.result = "Ok" THEN r.tools ELSE {}
        platform == IF extension_name = None \/ extension_name = Some(Platform)
                        THEN PlatformTools
                                \cup (IF alpha_features THEN SubagentTools ELSE {})
                                \cup (IF supports_resources(m) THEN ResourceTools ELSE {})
                        ELSE {}
        final == IF extension_name = None /\ fot # None THEN FinalOutputTools ELSE {}
    IN  prefixed_tools \cup platform \cup final

-----------------------------------------------------------------------------
(* Actions on the extension manager *)

\* What the transport and the server may answer: the first step that fails
\* ("ok": none), and for a connected client the InitializeResult's
\* instructions and resource capability
OkInits ==
    [step : {"ok"},
     instructions : {None, Some("i")},
     resources : BOOLEAN,
     client : [tools : ClientToolSets]]

FailedInit(step) ==
    [step |-> step, instructions |-> None, resources |-> FALSE,
     client |-> [tools |-> {}]]

\* A Builtin extension resolves no secrets
InitResultsFor(config) ==
    OkInits \cup { FailedInit(st) :
                     st \in IF config.kind = "Builtin" THEN AddSteps \ {"secret"} ELSE AddSteps }

AgentVars == <<frontend_tools, frontend_instructions, router_tool_selector>>

MgrAddExtension ==
    \E name \in RawNames, kind \in ConfigKinds \ {"Frontend"} :
      LET config == [kind |-> kind, name |-> name] IN
      \E init \in InitResultsFor(config) :
        LET r == add_extension(extension_manager, config, init) IN
        /\ extension_manager' = r.mgr
        /\ mgrRet' = [NoRet EXCEPT !.op = "add_extension", !.arg = name,
                        !.result = r.result, !.step = init.step,
                        !.init = Some(init)]
        /\ UNCHANGED <<AgentVars, replyVars, taskVars, promptVars, clientVars, postVars>>

MgrRemoveExtension ==
    \E name \in RawNames :
      LET r == remove_extension(extension_manager, name) IN
      /\ extension_manager' = r.mgr
      /\ mgrRet' = [NoRet EXCEPT !.op = "remove_extension", !.arg = name,
                      !.result = r.result,
                      !.loaded = normalize(name) \in DOMAIN extension_manager.clients]
      /\ UNCHANGED <<AgentVars, replyVars, taskVars, promptVars, clientVars, postVars>>

\* ExtensionManager::dispatch_tool_call, up to the returned ToolCallResult;
\* the future keeps its own clone of the client
MgrDispatchToolCall ==
    \E name \in CallNames :
      LET found == get_client_for_tool(extension_manager, name) IN
      /\ \/ /\ found = None
            /\ mgrRet' = [NoRet EXCEPT !.op = "dispatch_tool_call", !.arg = name,
                            !.result = "NotFound"]
         \/ \E client_name \in found :
              LET r == dispatch_tool_call(extension_manager, name, client_name) IN
              mgrRet' = [NoRet EXCEPT !.op = "dispatch_tool_call", !.arg = name,
                            !.result = r.result, !.client = r.client, !.tool = r.tool]
      /\ UNCHANGED <<extension_manager, AgentVars, replyVars, taskVars, promptVars, clientVars, postVars>>

\* Awaiting ToolCallResult.result: the future locks the client and calls
\* call_tool with the stripped name
MgrAwaitResult ==
    /\ mgrRet.op = "dispatch_tool_call"
    /\ mgrRet.result = "Ok"
    /\ LET client_name == CHOOSE c \in mgrRet.client : TRUE
           tool_name == CHOOSE t \in mgrRet.tool : TRUE
       IN  mgrRet' = [mgrRet EXCEPT !.op = "tool_result",
                        !.result = call_tool(extension_manager.clients[client_name], tool_name),
                        !.called = Some([client |-> client_name, tool |-> tool_name])]
    /\ UNCHANGED <<extension_manager, AgentVars, replyVars, taskVars, promptVars, clientVars, postVars>>

\* The extension_name a listing may be asked for
ListFilters == {None} \cup { Some(k) : k \in Keys } \cup {Some(Platform)}

\* ExtensionManager::get_prefixed_tools; any of the loaded clients may fail
\* its list_tools
MgrGetPrefixedTools ==
    \E extension_name \in ListFilters, failed \in SUBSET DOMAIN extension_manager.clients :
      LET r == get_prefixed_tools(extension_manager, extension_name, failed) IN
      /\ mgrRet' = [NoRet EXCEPT !.op = "get_prefixed_tools", !.result = r.result,
                      !.filter = extension_name, !.failed = failed, !.listed = r.tools]
      /\ UNCHANGED <<extension_manager, AgentVars, replyVars, taskVars, promptVars, clientVars, postVars>>

\* Agent::list_tools
AgentListTools ==
    \E extension_name \in ListFilters, failed \in SUBSET DOMAIN extension_manager.clients,
       alpha_features \in BOOLEAN :
      /\ mgrRet' = [NoRet EXCEPT !.op = "Agent::list_tools",
                      !.filter = extension_name, !.failed = failed,
                      !.listed = list_tools(extension_manager, extension_name, failed,
                                            alpha_features, final_output_tool)]
      /\ UNCHANGED <<extension_manager, AgentVars, replyVars, taskVars, promptVars, clientVars, postVars>>

\* The extension a resource call may name
ResourceFilters == {None} \cup { Some(k) : k \in Keys }

\* ExtensionManager::read_resource: the params carry a uri or not and may
\* name an extension; any of the loaded clients may fail the read
MgrReadResource ==
    \E uri \in BOOLEAN, extension_name \in ResourceFilters,
       failed \in SUBSET DOMAIN extension_manager.clients :
      LET r == read_resource(extension_manager, uri, extension_name, failed) IN
      \E e \in IF r.from = {} THEN {None} ELSE { Some(x) : x \in r.from } :
        /\ mgrRet' = [NoRet EXCEPT !.op = "read_resource", !.result = r.result,
                        !.uri = uri, !.filter = extension_name, !.failed = failed,
                        !.client = e, !.candidates = r.candidates]
        /\ UNCHANGED <<extension_manager, AgentVars, replyVars, taskVars, promptVars, clientVars, postVars>>

\* ExtensionManager::list_resources
MgrListResources ==
    \E extension \in ResourceFilters, failed \in SUBSET DOMAIN extension_manager.clients :
      LET r == list_resources(extension_manager, extension, failed) IN
      /\ mgrRet' = [NoRet EXCEPT !.op = "list_resources", !.result = r.result,
                      !.uri = TRUE, !.filter = extension, !.failed = failed,
                      !.listed = { [key |-> e, name |-> <<"r">>] : e \in r.from },
                      !.candidates = r.candidates]
      /\ UNCHANGED <<extension_manager, AgentVars, replyVars, taskVars, promptVars, clientVars, postVars>>

-----------------------------------------------------------------------------
(* Names *)

\* The longest string normalize is given
MaxLen == 3

\* The characters of those strings: a lower-case and an upper-case letter, a
\* hyphen, a space and a non-ASCII character
NameChars == {"a", "B", "-", " ", "<U+1F680>"}

RECURSIVE StringsUpTo(_)
StringsUpTo(n) ==
    IF n = 0 THEN {<<>>}
    ELSE LET shorter == StringsUpTo(n - 1)
         IN  shorter \cup { Append(s, c) : s \in { x \in shorter : Len(x) = n - 1 },
                                           c \in NameChars }

\* normalize, applied to a string
MgrNormalize ==
    \E input \in StringsUpTo(MaxLen) :
      /\ mgrRet' = [NoRet EXCEPT !.op = "normalize", !.arg = input,
                      !.normalized = normalize(input)]
      /\ UNCHANGED <<extension_manager, AgentVars, replyVars, taskVars, promptVars, clientVars, postVars>>

\* ExtensionManager::add_extension of a Builtin extension whose server gives
\* instructions and serves resources, or fails the initialize handshake
NamesAddExtension ==
    \E name \in RawNames :
      LET config == [kind |-> "Builtin", name |-> name] IN
      \E init \in { FailedInit("initialize"),
                     [step |-> "ok", instructions |-> Some("i"), resources |-> TRUE,
                      client |-> [tools |-> CHOOSE ts \in ClientToolSets : TRUE]] } :
        LET r == add_extension(extension_manager, config, init) IN
        /\ extension_manager' = r.mgr
        /\ mgrRet' = [NoRet EXCEPT !.op = "add_extension", !.arg = name,
                        !.result = r.result, !.step = init.step,
                        !.init = Some(init)]
        /\ UNCHANGED <<AgentVars, replyVars, taskVars, promptVars, clientVars, postVars>>

-----------------------------------------------------------------------------
(* Many extensions *)

\* The most extensions loaded at once
MaxClients == 6

\* The name of the i-th extension and of the i-th tool of a client
NumberedName(letter, i) ==
    LET Digits == <<"0", "1", "2", "3", "4", "5", "6", "7", "8", "9">>
    IN  <<letter, Digits[(i \div 10) + 1], Digits[(i % 10) + 1]>>

\* The numbers of tools a client may serve: the counts that put the total
\* of five clients below, at and above the limit
ToolCounts == {0, 10, 11}

\* Adding the next extension: a Builtin whose client serves `n` tools
ManyAddExtension ==
    /\ Cardinality(DOMAIN extension_manager.clients) < MaxClients
    /\ \E n \in ToolCounts :
         LET name == NumberedName("a", Cardinality(DOMAIN extension_manager.clients) + 1)
             config == [kind |-> "Builtin", name |-> name]
             init == [step |-> "ok", instructions |-> None, resources |-> FALSE,
                      client |-> [tools |-> { NumberedName("t", i) : i \in 1..n }]]
             r == add_extension(extension_manager, config, init)
         IN  /\ extension_manager' = r.mgr
             /\ mgrRet' = [NoRet EXCEPT !.op = "add_extension", !.arg = name,
                             !.result = r.result, !.step = init.step]
    /\ UNCHANGED <<AgentVars, replyVars, taskVars, promptVars, clientVars, postVars>>

\* ExtensionManager::suggest_disable_extensions_prompt; at most one of the
\* clients fails its list_tools
MgrSuggestDisable ==
    \E failed \in {{}} \cup { {k} : k \in DOMAIN extension_manager.clients } :
      /\ mgrRet' = [NoRet EXCEPT !.op = "suggest_disable_extensions_prompt",
                      !.failed = failed,
                      !.prompt = suggest_disable_extensions_prompt(extension_manager, failed)]
      /\ UNCHANGED <<extension_manager, AgentVars, replyVars, taskVars, promptVars, clientVars, postVars>>

-----------------------------------------------------------------------------
(* Agent: extension management *)

\* The tools a Frontend extension config may carry
FrontendToolSets == { {}, {<<"f">>} }

\* ToolRouterIndexManager::is_tool_router_enabled
is_tool_router_enabled(selector) == selector # None

\* Agent::add_extension for a Frontend config: it only fills frontend_tools
\* and frontend_instructions.  Then, with the router enabled, the tools are
\* indexed; `index` is the outcome of update_extension_tools.
AgentAddFrontend ==
    \E name \in RawNames, config_tools \in FrontendToolSets,
       instructions \in {None, Some("fi")},
       index \in IF is_tool_router_enabled(router_tool_selector) THEN {"Ok", "Err"} ELSE {"Ok"} :
      /\ frontend_tools' = frontend_tools \cup config_tools
      /\ frontend_instructions' =
            IF instructions # None THEN instructions ELSE Some("default")
      /\ mgrRet' = [NoRet EXCEPT !.op = "Agent::add_extension", !.arg = name,
                      !.result = IF index = "Err" THEN "SetupError" ELSE "Ok",
                      !.step = IF index = "Err" THEN "index" ELSE "ok"]
      /\ UNCHANGED <<extension_manager, router_tool_selector, replyVars, taskVars, promptVars, clientVars, postVars>>

\* Agent::add_extension for any other config: the manager adds it under the
\* write lock and its error is returned at once (`?`); then the indexing.
AgentAddExtension ==
    \E name \in RawNames, kind \in ConfigKinds \ {"Frontend"} :
      LET config == [kind |-> kind, name |-> name] IN
      \E init \in InitResultsFor(config) :
        LET r == add_extension(extension_manager, config, init) IN
        \E index \in IF r.result = "Ok" /\ is_tool_router_enabled(router_tool_selector)
                        THEN {"Ok", "Err"} ELSE {"Ok"} :
          /\ extension_manager' = r.mgr
          /\ mgrRet' = [NoRet EXCEPT !.op = "Agent::add_extension", !.arg = name,
                          !.result = IF r.result # "Ok" THEN r.result
                                     ELSE IF index = "Err" THEN "SetupError"
                                     ELSE "Ok",
                          !.step = IF r.result # "Ok" THEN init.step
                                   ELSE IF index = "Err" THEN "index"
                                   ELSE "ok"]
          /\ UNCHANGED <<AgentVars, replyVars, taskVars, promptVars, clientVars, postVars>>

\* Agent::update_router_tool_selector: the configured strategy, and whether
\* create_tool_selector and index_platform_tools succeed
UpdateRouterToolSelector ==
    \E strategy \in {"default", "vector", "llm"} :
      \E ok \in IF strategy = "default" THEN {TRUE} ELSE BOOLEAN :
        /\ router_tool_selector' =
              IF strategy # "default" /\ ok THEN Some(strategy) ELSE router_tool_selector
        /\ mgrRet' = [NoRet EXCEPT !.op = "update_router_tool_selector",
                        !.result = IF ok THEN "Ok" ELSE "Err"]
        /\ UNCHANGED <<extension_manager, frontend_tools, frontend_instructions, replyVars, taskVars, promptVars, clientVars, postVars>>

\* The `action` argument a call of platform__manage_extensions may carry;
\* a missing or non-string argument is read as ""
ManageActions == {"enable", "disable", "", "enabel"}

\* Agent::manage_extensions.  `lookup` is what
\* ExtensionConfigManager::get_config_by_name returns.  With the tool router
\* enabled the call asks for the read lock of the extension manager while it
\* holds the write lock and does not return ("Blocked").
manage_extensions(m, selector, action, extension_name, lookup, init) ==
    IF is_tool_router_enabled(selector) THEN [mgr |-> m, result |-> "Blocked"]
    ELSE IF action = "disable"
        THEN [mgr |-> remove_extension(m, extension_name).mgr, result |-> "Ok"]
    ELSE IF lookup # "Ok(Some)" THEN [mgr |-> m, result |-> "ExecutionError"]
    ELSE LET r == add_extension(m, [kind |-> "Stdio", name |-> extension_name], init)
         IN  [mgr |-> r.mgr,
              result |-> IF r.result = "Ok" THEN "Ok" ELSE "ExecutionError"]

\* Agent::dispatch_tool_call for platform__manage_extensions
AgentManageExtensions ==
    \E action \in ManageActions, extension_name \in RawNames,
       lookup \in {"Ok(Some)", "Ok(None)", "Err"} :
      \E init \in InitResultsFor([kind |-> "Stdio", name |-> extension_name]) :
        LET r == manage_extensions(extension_manager, router_tool_selector, action,
                                   extension_name, lookup, init)
        IN  /\ mgrRet.result # "Blocked"
            /\ extension_manager' = r.mgr
            /\ mgrRet' = [NoRet EXCEPT !.op = "manage_extensions", !.arg = extension_name,
                            !.action = action, !.result = r.result]
            /\ UNCHANGED <<AgentVars, replyVars, taskVars, promptVars, clientVars, postVars>>

\* The name of the subagent tool
Subagent == <<"s", "u", "b">>

\* The names Agent::dispatch_tool_call answers itself, with the part of the
\* agent that answers each.  The names are short forms of the constants:
\* platform__c for platform__manage_schedule, platform__m for
\* platform__manage_extensions, platform__r, platform__l and platform__s for
\* the resource tools and the extension search, sub__r for the subagent
\* task tool, r__v and r__l for the two router search tools.
BuiltinNames ==
    [schedule |-> {Prefixed(Platform, <<"c">>)},
     manage_extensions |-> {Prefixed(Platform, <<"m">>)},
     final_output |-> {FINAL_OUTPUT_TOOL_NAME},
     read_resource |-> {Prefixed(Platform, <<"r">>)},
     list_resources |-> {Prefixed(Platform, <<"l">>)},
     search_available_extensions |-> {Prefixed(Platform, <<"s">>)},
     subagent |-> {Prefixed(Subagent, <<"r">>)},
     router_search |-> {Prefixed(<<"r">>, <<"v">>), Prefixed(<<"r">>, <<"l">>)}]

\* A variant of dispatch_route that has no branch for the resource tools
dispatch_route_no_resources(name, frontend) ==
    IF name \in BuiltinNames.schedule THEN "schedule"
    ELSE IF name \in BuiltinNames.manage_extensions THEN "manage_extensions"
    ELSE IF name \in BuiltinNames.final_output THEN "final_output"
    ELSE IF name \in BuiltinNames.search_available_extensions
        THEN "search_available_extensions"
    ELSE IF name \in BuiltinNames.subagent THEN "subagent"
    ELSE IF name \in frontend THEN "frontend"
    ELSE IF name \in BuiltinNames.router_search THEN "router_search"
    ELSE "extension_manager"

\* Agent::dispatch_tool_call after the repetition monitor: the chain of
\* comparisons of tool_call.name, in order; the extension manager is the
\* last else.  No sub-recipe is registered.
dispatch_route(name, frontend) ==
    IF name \in BuiltinNames.schedule THEN "schedule"
    ELSE IF name \in BuiltinNames.manage_extensions THEN "manage_extensions"
    ELSE IF name \in BuiltinNames.final_output THEN "final_output"
    ELSE IF name \in BuiltinNames.read_resource THEN "read_resource"
    ELSE IF name \in BuiltinNames.list_resources THEN "list_resources"
    ELSE IF name \in BuiltinNames.search_available_extensions
        THEN "search_available_extensions"
    ELSE IF name \in BuiltinNames.subagent THEN "subagent"
    ELSE IF name \in frontend THEN "frontend"
    ELSE IF name \in BuiltinNames.router_search THEN "router_search"
    ELSE "extension_manager"

\* The names of the extensions platform__manage_extensions may be asked for:
\* two of them are prefixes of names the agent answers itself
ManagedNames == {Platform, Subagent, <<"r">>}

\* The names a provider may put in a tool call: the names the agent answers
\* itself and tools of the three extensions
DispatchNames ==
    UNION { BuiltinNames[b] : b \in DOMAIN BuiltinNames }
        \cup { Prefixed(k, <<"t">>) : k \in ManagedNames }

\* Agent::dispatch_tool_call for a call the repetition monitor lets through.
\* A call of platform__manage_extensions enables or disables an extension;
\* a call that reaches the extension manager is resolved by
\* get_client_for_tool and ExtensionManager::dispatch_tool_call; a call of
\* the final-output tool, none being registered here, is an error.
AgentDispatchByName ==
    \E name \in DispatchNames :
      LET backend == dispatch_route(name, frontend_tools)
          found == get_client_for_tool(extension_manager, name)
          ret == [NoRet EXCEPT !.op = "Agent::dispatch_tool_call", !.arg = name,
                               !.backend = backend]
      IN  /\ CASE backend = "manage_extensions" ->
                    \E action \in {"enable", "disable"}, extension_name \in ManagedNames,
                       init \in OkInits \cup {FailedInit("initialize")} :
                      LET r == manage_extensions(extension_manager, router_tool_selector,
                                                 action, extension_name, "Ok(Some)", init)
                      IN  /\ extension_manager' = r.mgr
                          /\ mgrRet' = [ret EXCEPT !.action = action, !.result = r.result]
                [] backend = "extension_manager" ->
                    /\ UNCHANGED extension_manager
                    /\ \/ /\ found = None
                          /\ mgrRet' = [ret EXCEPT !.result = "ExecutionError"]
                       \/ \E client_name \in found :
                            LET r == dispatch_tool_call(extension_manager, name, client_name)
                            IN  mgrRet' = [ret EXCEPT
                                    !.result = IF r.result = "Ok" THEN "Ok" ELSE "ExecutionError",
                                    !.client = r.client, !.tool = r.tool]
                [] backend = "final_output" ->
                    /\ final_output_tool = None
                    /\ UNCHANGED extension_manager
                    /\ mgrRet' = [ret EXCEPT !.result = "ExecutionError"]
                [] OTHER ->
                    /\ UNCHANGED extension_manager
                    /\ \E result \in {"Ok", "ExecutionError"} :
                          mgrRet' = [ret EXCEPT !.result = result]
          /\ UNCHANGED <<AgentVars, replyVars, taskVars, promptVars, clientVars, postVars>>

-----------------------------------------------------------------------------
(* Agent::reply: inputs and events *)

\* Bounds of the model
MaxTurns == 2

MaxRequests == 2

MaxNotifications == 1

MaxBuffered == 2

Modes == {"auto", "approve", "smart_approve", "chat"}

\* A variant of EffectiveMode in which an execution_mode of "background" does
\* not override GOOSE_MODE
EffectiveMode_no_background(config_mode, execution_mode) ==
    CASE execution_mode = Some("foreground") -> "auto"
      [] OTHER -> config_mode

\* goose_mode: GOOSE_MODE, overridden by the session's execution_mode
EffectiveMode(config_mode, execution_mode) ==
    CASE execution_mode = Some("foreground") -> "auto"
      [] execution_mode = Some("background") -> "chat"
      [] OTHER -> config_mode

\* A variant of the cap test that never finds the cap exceeded
cap_exceeded_never(turns, max) == FALSE

\* A variant of the cap test that lets one more turn through
cap_exceeded_one_late(turns, max) == turns > max + 1

\* turns_taken > max_turns
cap_exceeded(turns, max) == turns > max

RequestId(i) == <<"req", i>>

\* The subagents that send notifications
SubagentIds == {<<"sub", 1>>, <<"sub", 2>>}

\* The tool requests a provider response may carry: an unparseable tool
\* call, a call of a frontend tool, of an extension tool, of
\* platform__manage_extensions with action enable, or of final_output.
RequestShapes ==
    { [tool_call |-> "Err", kind |-> "none"],
      [tool_call |-> "Ok", kind |-> "frontend"],
      [tool_call |-> "Ok", kind |-> "ext"],
      [tool_call |-> "Ok", kind |-> "enable"],
      [tool_call |-> "Ok", kind |-> "final_output"] }

Responses ==
    UNION { [1..n -> RequestShapes] : n \in 0..MaxRequests }

\* The extension the model's tool calls are about
ReplyExtension == <<"a">>

ExtToolCall == Prefixed(normalize(ReplyExtension), <<"t">>)

\* AgentEvent
Message(role, kind) ==
    [type |-> "Message", role |-> role, kind |-> kind, id |-> <<>>, turn |-> 0]

McpNotification(id, kind, turn) ==
    [type |-> "McpNotification", role |-> "none", kind |-> kind, id |-> id, turn |-> turn]

\* AgentEvent::ModelChange { model, mode }
ModelChange(model, mode) ==
    [type |-> "ModelChange", role |-> "none", kind |-> mode, id |-> model, turn |-> 0]

\* The stream's Err item, after which it ends
StreamError ==
    [type |-> "Err", role |-> "none", kind |-> "error", id |-> <<>>, turn |-> 0]

\* A buffered subagent notification: params.data.subagent_id and
\* params.data.message, either of which may be missing
SubagentNotifications ==
    [subagent_id : {None} \cup { Some(s) : s \in SubagentIds }, message : BOOLEAN]

\* Message::with_tool_response
with_tool_response(m, id, kind) == Append(m, [id |-> id, kind |-> kind])

\* A variant of tool_response_of that records every output as a success
tool_response_of_always_ok(item) == "result"

\* ToolStreamItem::Result(output): the tool response recorded for the output
tool_response_of(item) == IF item = "Ok" THEN "result" ELSE "error"

\* categorize_tool_requests: the positions of the frontend requests and of
\* the remaining ones (an unparseable call names no tool: it remains)
frontend_requests(resp) ==
    { i \in DOMAIN resp : resp[i].tool_call = "Ok" /\ resp[i].kind = "frontend" }

remaining_requests(resp) == DOMAIN resp \ frontend_requests(resp)

\* The next position >= from of a request in S, 0 when there is none
NextIn(S, from) ==
    IF \E i \in S : i >= from
        THEN CHOOSE i \in S : i >= from /\ \A j \in S : j >= from => i <= j
        ELSE 0

RECURSIVE SeqOf(_, _, _)
\* The responses `kind` for the positions of S from `from` on, in order
SeqOf(S, from, kind) ==
    LET i == NextIn(S, from)
    IN  IF i = 0 THEN <<>>
        ELSE <<[id |-> RequestId(i), kind |-> kind]>> \o SeqOf(S, i + 1, kind)

\* check_tool_permissions: every remaining request is put in exactly one of
\* approved, needs_approval and denied; in auto mode all are approved.
check_tool_permissions(resp, mode) ==
    IF mode = "auto"
        THEN { [i \in remaining_requests(resp) |-> "approved"] }
        ELSE [remaining_requests(resp) -> {"approved", "needs_approval", "denied"}]

-----------------------------------------------------------------------------
(* Tool streams *)

\* A ToolStream of tool_futures.  result is "Ok" or "Err" when the future
\* is ready at dispatch, "pending" when a client call decides it; notifs
\* tells whether the call has a notification stream; sent counts the
\* notifications yielded; done is set once the Result item was yielded.
Stream(id, turn, result, notifs) ==
    [id |-> id, turn |-> turn, result |-> result, notifs |-> notifs, sent |-> 0, done |-> FALSE]

\* A variant of tool_stream that goes on polling the notification receiver
\* after it has yielded the result
tool_stream_items_no_break(s) ==
    (IF s.notifs /\ s.sent < MaxNotifications THEN {"Message"} ELSE {})
        \cup (IF s.done THEN {}
              ELSE IF s.result = "pending" THEN {"Ok", "Err"} ELSE {s.result})

\* tool_stream: the items the stream may yield next.  select! takes a
\* notification while the receiver has one, or the result; after the result
\* the loop breaks and the stream has ended.
tool_stream_items(s) ==
    IF s.done THEN {}
    ELSE (IF s.notifs /\ s.sent < MaxNotifications THEN {"Message"} ELSE {})
            \cup (IF s.result = "pending" THEN {"Ok", "Err"} ELSE {s.result})

\* A variant of tool_stream that ends after any item, a notification too
tool_stream_ends_on_message(s, item) == [s EXCEPT !.done = TRUE]

\* tool_stream: the stream after it yielded `item`
tool_stream(s, item) ==
    IF item = "Message" THEN [s EXCEPT !.sent = s.sent + 1]
    ELSE [s EXCEPT !.done = TRUE]

\* Whether the result of the call is mapped through
\* large_response_handler::process_tool_response: the return at the end of
\* dispatch_tool_call does so, the early returns of manage_extensions, of
\* final_output and of the repetition monitor do not
large_response_handled(backend) == backend = "extension_manager"

\* What Agent::dispatch_tool_call returned for the request id, and the part
\* of it that answered
DispatchRet(id, backend, stream) ==
    [NoRet EXCEPT !.op = "Agent::dispatch_tool_call", !.arg = id, !.step = backend,
                  !.result = IF stream.result = "Err" THEN "ExecutionError" ELSE "Ok",
                  !.processed = large_response_handled(backend)]

\* Agent::dispatch_tool_call after the repetition monitor has let the call
\* through: the platform handlers, the final-output tool, the extension
\* manager.  env is what the surroundings answer: whether the repetition
\* monitor rejects the call, what get_config_by_name finds, what the new
\* extension's transport and server answer, whether the final output
\* validates, and which of the matching keys get_client_for_tool returns.
\* Returns the manager and the final-output tool after the call, the part
\* that answered, and the ToolStream reply builds from the result.
dispatch_to_backend(m, fot, req, id, turn, env) ==
    IF req.kind = "enable"
        THEN IF env.config # "Some"
                THEN [mgr |-> m, fot |-> fot, backend |-> "manage_extensions",
                      stream |-> Stream(id, turn, "Err", FALSE)]
                ELSE LET r == add_extension(m, [kind |-> "Stdio", name |-> ReplyExtension], env.init)
                     IN  [mgr |-> r.mgr, fot |-> fot, backend |-> "manage_extensions",
                          stream |-> Stream(id, turn, IF r.result = "Ok" THEN "Ok" ELSE "Err", FALSE)]
    ELSE IF req.kind = "final_output"
        THEN IF fot = None
                THEN [mgr |-> m, fot |-> fot, backend |-> "final_output",
                      stream |-> Stream(id, turn, "Err", FALSE)]
                ELSE IF env.valid
                    THEN [mgr |-> m, fot |-> Some(Some("output")), backend |-> "final_output",
                          stream |-> Stream(id, turn, "Ok", FALSE)]
                    ELSE [mgr |-> m, fot |-> fot, backend |-> "final_output",
                          stream |-> Stream(id, turn, "Err", FALSE)]
    ELSE IF env.client = None
        THEN [mgr |-> m, fot |-> fot, backend |-> "extension_manager",
              stream |-> Stream(id, turn, "Err", FALSE)]
    ELSE LET r == dispatch_tool_call(m, ExtToolCall, CHOOSE c \in env.client : TRUE)
         IN  [mgr |-> m, fot |-> fot, backend |-> "extension_manager",
              stream |-> IF r.result = "Ok" THEN Stream(id, turn, "pending", TRUE)
                         ELSE Stream(id, turn, "Err", FALSE)]

\* A variant of Agent::dispatch_tool_call that asks the repetition monitor
\* after the call has been made, and then drops the call's result
agent_dispatch_tool_call_monitor_late(m, fot, req, id, turn, env) ==
    LET r == dispatch_to_backend(m, fot, req, id, turn, env)
    IN  IF env.rejected
            THEN [r EXCEPT !.backend = "tool_monitor", !.stream = Stream(id, turn, "Err", FALSE)]
            ELSE r

\* Agent::dispatch_tool_call.  A call the repetition monitor rejects returns
\* its error before anything else is looked at.
agent_dispatch_tool_call(m, fot, req, id, turn, env) ==
    IF env.rejected
        THEN [mgr |-> m, fot |-> fot, backend |-> "tool_monitor",
              stream |-> Stream(id, turn, "Err", FALSE)]
        ELSE dispatch_to_backend(m, fot, req, id, turn, env)

OkInit ==
    [step |-> "ok", instructions |-> None, resources |-> FALSE,
     client |-> [tools |-> {<<"t">>, <<"t", "_", "_", "u">>}]]

\* The answers the surroundings may give to one dispatch; the answers a
\* dispatch does not ask for are fixed
DispatchEnvs(m, req) ==
    LET found == get_client_for_tool(m, ExtToolCall)
        Quiet == [rejected |-> FALSE, config |-> "Some", init |-> OkInit,
                  valid |-> TRUE, client |-> None]
    IN  { [Quiet EXCEPT !.rejected = TRUE] }
          \cup
        ( CASE req.kind = "enable" ->
                  { [Quiet EXCEPT !.config = c] : c \in {"None", "Err"} }
                    \cup { [Quiet EXCEPT !.init = i] :
                             i \in {OkInit, FailedInit("initialize")} }
            [] req.kind = "final_output" ->
                  { [Quiet EXCEPT !.valid = v] : v \in BOOLEAN }
            [] OTHER ->
                  IF found = None THEN {Quiet}
                  ELSE { [Quiet EXCEPT !.client = Some(k)] : k \in found } )

\* The clients whose mutexes are followed
ClientIds == {<<"a">>, <<"b">>}

\* The calls that may run at the same time
MaxCalls == 3

CallIds == 1 .. MaxCalls

\* A call that has not started or has returned
IdleCall == [client |-> None, ops |-> <<>>, pc |-> "idle"]

\* The call i on the clients
Call(i) == IF i \in DOMAIN client_calls THEN client_calls[i] ELSE IdleCall

\* The calls of GoogleProvider::post that may run at the same time
MaxPosts == 2

PostIds == 1 .. MaxPosts

\* A call of post that has not started
IdlePost ==
    [pc |-> "idle", retries |-> 0, total_delay |-> 0, attempts |-> 0,
     response |-> "none", result |-> "none"]

\* The call i of post
Post(i) == IF i \in DOMAIN posts THEN posts[i] ELSE IdlePost

-----------------------------------------------------------------------------
(* Agent::reply *)

Init ==
    /\ extension_manager = new
    /\ frontend_tools = {}
    /\ frontend_instructions = None
    /\ router_tool_selector = None
    /\ mgrRet = NoRet
    /\ pc = "idle"
    /\ goose_mode = "auto"
    /\ max_turns = 0
    /\ final_output_tool = None
    /\ turns_taken = 0
    /\ provider_calls = 0
    /\ messages = <<"user">>
    /\ tools = {}
    /\ mcp_notification_rx = <<>>
    /\ response = <<>>
    /\ permission_check_result = <<>>
    /\ idx = 0
    /\ tool_futures = {}
    /\ message_tool_response = <<>>
    /\ all_install_successful = TRUE
    /\ yielded = <<>>
    /\ provider_result = None
    /\ mode_settings = None
    /\ task = IdleTask
    /\ system_prompt_extras = {}
    /\ client_mutex = EmptyMap
    /\ client_calls = EmptyMap
    /\ posts = EmptyMap

turnVars ==
    <<response, permission_check_result, idx, tool_futures, message_tool_response,
      all_install_successful>>

\* The locals of one iteration of the loop go out of scope
EndOfIteration ==
    /\ response' = <<>>
    /\ permission_check_result' = <<>>
    /\ idx' = 0
    /\ tool_futures' = {}
    /\ message_tool_response' = <<>>
    /\ all_install_successful' = TRUE

\* FinalOutputTool::system_prompt
FinalOutputSystemPrompt == "final_output_system_prompt"

\* PromptManager::build_system_prompt: the parts of the prompt it builds;
\* every text added by add_system_prompt_extra is one of them
build_system_prompt(extras) == {"system"} \cup extras

\* A variant of add_final_output_tool that leaves the system prompt alone
add_final_output_tool_no_prompt(fot, extras) ==
    [final_output_tool |-> Some(None), system_prompt_extras |-> extras]

\* Agent::add_final_output_tool: the tool is created without an output and
\* its system prompt is added to the prompt manager's extras
add_final_output_tool(fot, extras) ==
    [final_output_tool |-> Some(None),
     system_prompt_extras |-> extras \cup {FinalOutputSystemPrompt}]

\* Agent::add_final_output_tool, before the reply
AddFinalOutputTool ==
    /\ pc = "idle"
    /\ UNCHANGED <<taskVars, clientVars, postVars>>
    /\ provider_result' = None
    /\ mode_settings' = None
    /\ final_output_tool = None
    /\ LET r == add_final_output_tool(final_output_tool, system_prompt_extras)
       IN  /\ final_output_tool' = r.final_output_tool
           /\ system_prompt_extras' = r.system_prompt_extras
    /\ UNCHANGED <<mgrVars, pc, goose_mode, max_turns, turns_taken, provider_calls,
                   messages, tools, mcp_notification_rx, turnVars, yielded>>

\* The system prompt the agent builds from its prompt manager
AgentBuildSystemPrompt ==
    /\ mgrRet' = [NoRet EXCEPT !.op = "build_system_prompt",
                    !.system_prompt = build_system_prompt(system_prompt_extras)]
    /\ UNCHANGED <<extension_manager, AgentVars, replyVars, taskVars, promptVars, clientVars, postVars>>

\* reply(), up to the returned stream: prepare_tools_and_prompt, whose error
\* is returned in place of a stream, and the settings
ReplyStart ==
    /\ pc = "idle"
    /\ UNCHANGED <<taskVars, promptVars, clientVars, postVars>>
    /\ provider_result' = None
    /\ \/ /\ pc' = "failed"
          /\ mode_settings' = None
          /\ UNCHANGED <<goose_mode, max_turns, tools>>
       \/ /\ \E config_mode \in Modes,
                execution_mode \in {None, Some("foreground"), Some("background"), Some("other")},
                mt \in 0..MaxTurns :
                /\ goose_mode' = EffectiveMode(config_mode, execution_mode)
                /\ mode_settings' = Some([GOOSE_MODE |-> config_mode,
                                          execution_mode |-> execution_mode])
                /\ max_turns' = mt
          /\ tools' = DOMAIN extension_manager.clients
          /\ pc' = "top"
    /\ turns_taken' = 0
    /\ UNCHANGED <<mgrVars, final_output_tool, provider_calls, messages, mcp_notification_rx,
                   turnVars, yielded>>

\* The head of the loop: the turn counter and the cap.  (turns_taken is a
\* u32; the turns of the model stay far below u32::MAX, where the increment
\* would overflow.)
LoopTop ==
    /\ pc = "top"
    /\ UNCHANGED <<taskVars, promptVars, clientVars, postVars>>
    /\ provider_result' = None
    /\ mode_settings' = None
    /\ turns_taken < MaxTurns + 1
    /\ turns_taken' = turns_taken + 1
    /\ IF cap_exceeded(turns_taken + 1, max_turns)
          THEN /\ yielded' = <<Message("assistant", "cap")>>
               /\ pc' = "done"
          ELSE /\ yielded' = <<>>
               /\ pc' = "drain"
    /\ UNCHANGED <<mgrVars, goose_mode, max_turns, final_output_tool, provider_calls,
                   messages, tools, mcp_notification_rx, turnVars>>

\* A subagent sends a notification on the mcp channel.  The loop reads the
\* channel only in get_mcp_notifications, so a notification sent at any
\* time is one buffered when the loop gets there.
SubagentNotify ==
    /\ pc = "drain"
    /\ UNCHANGED <<taskVars, promptVars, clientVars, postVars>>
    /\ provider_result' = None
    /\ mode_settings' = None
    /\ Len(mcp_notification_rx) < MaxBuffered
    /\ \E n \in SubagentNotifications :
          mcp_notification_rx' = Append(mcp_notification_rx, n)
    /\ UNCHANGED <<mgrVars, pc, goose_mode, max_turns, final_output_tool, turns_taken,
                   provider_calls, messages, tools, turnVars, yielded>>

RECURSIVE subagent_events_lifo(_, _)
\* A variant of subagent_events that emits the last notification first
subagent_events_lifo(ns, turn) ==
    IF ns = <<>> THEN <<>>
    ELSE LET n == Head(ns)
         IN  subagent_events_lifo(Tail(ns), turn)
             \o (IF n.subagent_id # None /\ n.message
                    THEN <<McpNotification(CHOOSE x \in n.subagent_id : TRUE, "subagent", turn)>>
                    ELSE <<>>)

RECURSIVE subagent_events(_, _)
\* The McpNotification events of the drained notifications, in order: one
\* for each notification that has both data.subagent_id and data.message
subagent_events(ns, turn) ==
    IF ns = <<>> THEN <<>>
    ELSE LET n == Head(ns)
         IN  (IF n.subagent_id # None /\ n.message
                 THEN <<McpNotification(CHOOSE x \in n.subagent_id : TRUE, "subagent", turn)>>
                 ELSE <<>>)
             \o subagent_events(Tail(ns), turn)

\* get_mcp_notifications and the events of what it drained
Drain ==
    /\ pc = "drain"
    /\ UNCHANGED <<taskVars, promptVars, clientVars, postVars>>
    /\ provider_result' = None
    /\ mode_settings' = None
    /\ yielded' = subagent_events(mcp_notification_rx, turns_taken)
    /\ mcp_notification_rx' = <<>>
    /\ pc' = "generate"
    /\ UNCHANGED <<mgrVars, goose_mode, max_turns, final_output_tool, turns_taken,
                   provider_calls, messages, tools, turnVars>>

\* The models a usage may report; a lead-worker provider's get_model_info()
\* is (LeadModel, WorkerModel)
LeadModel == "lead-model"

WorkerModel == "worker-model"

Models == {LeadModel, WorkerModel, "other-model"}

\* The mode reply derives from usage.model
mode_of(active_model) ==
    IF active_model = LeadModel THEN "lead"
    ELSE IF active_model = WorkerModel THEN "worker"
    ELSE "unknown"

\* A variant that emits the ModelChange event for every provider
ModelChangeEvents_any_provider(lead_worker, active_model) ==
    <<ModelChange(active_model, mode_of(active_model))>>

\* if let Some(lead_worker) = provider.as_lead_worker(): the ModelChange event
\* of the active model when the provider is a lead-worker provider
ModelChangeEvents(lead_worker, active_model) ==
    IF lead_worker THEN <<ModelChange(active_model, mode_of(active_model))>> ELSE <<>>

\* The variant of NoToolRequests that goes round the loop again when no
\* final-output tool is registered
NoToolRequests_no_break(fot) ==
    IF fot = None THEN [events |-> <<>>, next |-> "top"]
    ELSE IF fot = Some(None)
        THEN [events |-> <<Message("user", "continuation")>>, next |-> "top"]
    ELSE [events |-> <<Message("assistant", "final_output")>>, next |-> "done"]

\* A variant of NoToolRequests that ends the stream after the continuation
\* message
NoToolRequests_ends_unsatisfied(fot) ==
    IF fot = None THEN [events |-> <<>>, next |-> "done"]
    ELSE IF fot = Some(None)
        THEN [events |-> <<Message("user", "continuation")>>, next |-> "done"]
    ELSE [events |-> <<Message("assistant", "final_output")>>, next |-> "done"]

\* if num_tool_requests == 0: what is yielded after the response and where
\* the loop goes, by the final-output tool (None: not registered,
\* Some(None): registered without an output, otherwise its output)
NoToolRequests(fot) ==
    IF fot = None THEN [events |-> <<>>, next |-> "done"]
    ELSE IF fot = Some(None)
        THEN [events |-> <<Message("user", "continuation")>>, next |-> "top"]
    ELSE [events |-> <<Message("assistant", "final_output")>>, next |-> "done"]

\* The variant of ProviderError that tries the turn again after
\* ContextLengthExceeded
ProviderError_retry_context(outcome) ==
    IF outcome = "ContextLengthExceeded"
        THEN [events |-> <<Message("assistant", "context_length_exceeded")>>, next |-> "top"]
    ELSE [events |-> <<Message("assistant", "error")>>, next |-> "done"]

\* The variant of ProviderError that tries the turn again after an error
\* other than ContextLengthExceeded
ProviderError_retry_other(outcome) ==
    IF outcome = "ContextLengthExceeded"
        THEN [events |-> <<Message("assistant", "context_length_exceeded")>>, next |-> "done"]
    ELSE [events |-> <<Message("assistant", "error")>>, next |-> "top"]

\* Err(ProviderError::ContextLengthExceeded(_)) and Err(e): the one message
\* yielded, and the break
ProviderError(outcome) ==
    IF outcome = "ContextLengthExceeded"
        THEN [events |-> <<Message("assistant", "context_length_exceeded")>>, next |-> "done"]
    ELSE [events |-> <<Message("assistant", "error")>>, next |-> "done"]

\* generate_response_from_provider and what follows it up to the first loop
\* over the tool requests.  outcome is the provider's answer, or
\* "NoProvider" when self.provider() fails before the call (no provider was
\* ever set), "MetricsError" when update_session_metrics fails after a good
\* answer.
Generate ==
    /\ pc = "generate"
    /\ UNCHANGED <<taskVars, promptVars, clientVars, postVars>>
    /\ mode_settings' = None
    /\ \E outcome \in {"Ok", "MetricsError", "ContextLengthExceeded", "Error"}
                          \cup (IF provider_calls = 0 THEN {"NoProvider"} ELSE {}),
          lead_worker \in BOOLEAN, active_model \in Models, resp \in Responses :
          /\ outcome \notin {"Ok", "MetricsError"} => resp = <<>>
          /\ provider_calls' = IF outcome = "NoProvider" THEN provider_calls ELSE provider_calls + 1
          /\ provider_result' =
                IF outcome = "NoProvider" THEN None
                ELSE Some([outcome |-> outcome, model |-> active_model,
                           lead_worker |-> lead_worker, requests |-> Len(resp)])
          /\ CASE outcome \in {"ContextLengthExceeded", "Error"} ->
                    /\ yielded' = ProviderError(outcome).events
                    /\ pc' = ProviderError(outcome).next
                    /\ UNCHANGED <<response, idx, message_tool_response>>
               [] outcome = "NoProvider" ->
                    /\ yielded' = <<StreamError>>
                    /\ pc' = "done"
                    /\ UNCHANGED <<response, idx, message_tool_response>>
               [] outcome = "MetricsError" ->
                    /\ yielded' = ModelChangeEvents(lead_worker, active_model) \o <<StreamError>>
                    /\ pc' = "done"
                    /\ UNCHANGED <<response, idx, message_tool_response>>
               [] OTHER ->
                    /\ response' = [i \in DOMAIN resp |->
                                        [id |-> RequestId(i), tool_call |-> resp[i].tool_call,
                                         kind |-> resp[i].kind]]
                    /\ message_tool_response' = <<>>
                    /\ idx' = IF resp # <<>> THEN 1 ELSE 0
                    /\ IF resp # <<>>
                          THEN /\ yielded' = ModelChangeEvents(lead_worker, active_model)
                                                \o <<Message("assistant", "response")>>
                               /\ pc' = "frontend"
                          ELSE /\ yielded' = ModelChangeEvents(lead_worker, active_model)
                                                \o <<Message("assistant", "response")>>
                                                \o NoToolRequests(final_output_tool).events
                               /\ pc' = NoToolRequests(final_output_tool).next
    /\ UNCHANGED <<mgrVars, goose_mode, max_turns, final_output_tool, turns_taken,
                   messages, tools, mcp_notification_rx, permission_check_result, tool_futures,
                   all_install_successful>>

-----------------------------------------------------------------------------
(* Agent::reply: the tool requests of a turn *)

loopVars ==
    <<goose_mode, max_turns, turns_taken, provider_calls, messages,
      mcp_notification_rx>>

\* handle_frontend_tool_requests: the next frontend request is handed to the
\* caller as a Message
FrontendRequest ==
    /\ pc = "frontend"
    /\ UNCHANGED <<taskVars, promptVars, clientVars, postVars>>
    /\ provider_result' = None
    /\ mode_settings' = None
    /\ NextIn(frontend_requests(response), idx) # 0
    /\ idx' = NextIn(frontend_requests(response), idx)
    /\ yielded' = <<Message("assistant", "frontend_tool_request")>>
    /\ pc' = "frontend_wait"
    /\ UNCHANGED <<mgrVars, loopVars, final_output_tool, tools, response,
                   permission_check_result, tool_futures, message_tool_response,
                   all_install_successful>>

\* handle_frontend_tool_requests: the caller answers on the tool-result
\* channel and the answer becomes the request's tool response
FrontendAnswer ==
    /\ pc = "frontend_wait"
    /\ UNCHANGED <<taskVars, promptVars, clientVars, postVars>>
    /\ provider_result' = None
    /\ mode_settings' = None
    /\ \E kind \in {"result", "error"} :
          message_tool_response' = with_tool_response(message_tool_response, response[idx].id, kind)
    /\ idx' = idx + 1
    /\ yielded' = <<>>
    /\ pc' = "frontend"
    /\ UNCHANGED <<mgrVars, loopVars, final_output_tool, tools, response,
                   permission_check_result, tool_futures, all_install_successful>>

\* The frontend stream has ended.  In chat mode every remaining request is
\* answered with the skipped response; otherwise check_tool_permissions
\* sorts the remaining requests into approved, needs_approval and denied.
RemainingPhase ==
    /\ pc = "frontend"
    /\ UNCHANGED <<taskVars, promptVars, clientVars, postVars>>
    /\ provider_result' = None
    /\ mode_settings' = None
    /\ NextIn(frontend_requests(response), idx) = 0
    /\ yielded' = <<>>
    /\ idx' = 1
    /\ tool_futures' = {}
    /\ all_install_successful' = TRUE
    /\ IF goose_mode = "chat"
          THEN /\ message_tool_response' =
                      message_tool_response \o SeqOf(remaining_requests(response), 1, "skipped")
               /\ permission_check_result' = <<>>
               /\ pc' = "bundle"
          ELSE /\ \E result \in check_tool_permissions(response, goose_mode) :
                      permission_check_result' = result
               /\ pc' = "approved"
               /\ UNCHANGED message_tool_response
    /\ UNCHANGED <<mgrVars, loopVars, final_output_tool, tools, response>>

Approved == { i \in DOMAIN permission_check_result : permission_check_result[i] = "approved" }

NeedsApproval == { i \in DOMAIN permission_check_result : permission_check_result[i] = "needs_approval" }

Denied == { i \in DOMAIN permission_check_result : permission_check_result[i] = "denied" }

\* for request in &permission_check_result.approved: a request with a
\* parseable tool call is dispatched and its stream pushed on tool_futures;
\* the `if let Ok(tool_call)` has no else, one without is passed over.
DispatchApproved ==
    /\ pc = "approved"
    /\ UNCHANGED <<taskVars, promptVars, clientVars, postVars>>
    /\ provider_result' = None
    /\ mode_settings' = None
    /\ NextIn(Approved, idx) # 0
    /\ LET i == NextIn(Approved, idx)
           req == response[i]
       IN  /\ idx' = i + 1
           /\ IF req.tool_call = "Ok"
                 THEN \E env \in DispatchEnvs(extension_manager, req) :
                        LET r == agent_dispatch_tool_call(extension_manager, final_output_tool,
                                                          req, req.id, turns_taken, env)
                        IN  /\ extension_manager' = r.mgr
                            /\ final_output_tool' = r.fot
                            /\ tool_futures' = tool_futures \cup {r.stream}
                            /\ mgrRet' = DispatchRet(req.id, r.backend, r.stream)
                 ELSE /\ mgrRet' = NoRet
                      /\ UNCHANGED <<extension_manager, final_output_tool, tool_futures>>
    /\ yielded' = <<>>
    /\ UNCHANGED <<frontend_tools, frontend_instructions, router_tool_selector,
                   loopVars, tools, response, permission_check_result, pc,
                   message_tool_response, all_install_successful>>

\* for request in &permission_check_result.denied
DeclineDenied ==
    /\ pc = "approved"
    /\ UNCHANGED <<taskVars, promptVars, clientVars, postVars>>
    /\ provider_result' = None
    /\ mode_settings' = None
    /\ NextIn(Approved, idx) = 0
    /\ message_tool_response' = message_tool_response \o SeqOf(Denied, 1, "declined")
    /\ idx' = 1
    /\ yielded' = <<>>
    /\ pc' = "approval"
    /\ mgrRet' = NoRet
    /\ UNCHANGED <<extension_manager, AgentVars, loopVars, final_output_tool, tools, response,
                   permission_check_result, tool_futures, all_install_successful>>

\* handle_approval_tool_requests: the next request needing approval is put
\* to the user as a confirmation request; one with no parseable tool call
\* is answered with an error instead
ConfirmationRequest ==
    /\ pc = "approval"
    /\ UNCHANGED <<taskVars, promptVars, clientVars, postVars>>
    /\ provider_result' = None
    /\ mode_settings' = None
    /\ NextIn(NeedsApproval, idx) # 0
    /\ LET i == NextIn(NeedsApproval, idx)
       IN  IF response[i].tool_call = "Ok"
              THEN /\ idx' = i
                   /\ yielded' = <<Message("user", "confirmation_request")>>
                   /\ pc' = "approval_wait"
                   /\ UNCHANGED message_tool_response
              ELSE /\ idx' = i + 1
                   /\ yielded' = <<>>
                   /\ pc' = "approval"
                   /\ message_tool_response' =
                          with_tool_response(message_tool_response, response[i].id, "error")
    /\ mgrRet' = NoRet
    /\ UNCHANGED <<extension_manager, AgentVars, loopVars, final_output_tool, tools, response,
                   permission_check_result, tool_futures, all_install_successful>>

\* handle_approval_tool_requests: the user's PermissionConfirmation arrives;
\* an allowed call is dispatched and joins tool_futures, a denied one gets
\* the declined response
ConfirmationAnswer ==
    /\ pc = "approval_wait"
    /\ UNCHANGED <<taskVars, promptVars, clientVars, postVars>>
    /\ provider_result' = None
    /\ mode_settings' = None
    /\ LET req == response[idx]
       IN  \E allow \in BOOLEAN :
             IF allow
                THEN \E env \in DispatchEnvs(extension_manager, req) :
                       LET r == agent_dispatch_tool_call(extension_manager, final_output_tool,
                                                         req, req.id, turns_taken, env)
                       IN  /\ extension_manager' = r.mgr
                           /\ final_output_tool' = r.fot
                           /\ tool_futures' = tool_futures \cup {r.stream}
                           /\ mgrRet' = DispatchRet(req.id, r.backend, r.stream)
                           /\ UNCHANGED message_tool_response
                ELSE /\ message_tool_response' =
                            with_tool_response(message_tool_response, req.id, "declined")
                     /\ mgrRet' = NoRet
                     /\ UNCHANGED <<extension_manager, final_output_tool, tool_futures>>
    /\ idx' = idx + 1
    /\ yielded' = <<>>
    /\ pc' = "approval"
    /\ UNCHANGED <<frontend_tools, frontend_instructions, router_tool_selector,
                   loopVars, tools, response, permission_check_result, all_install_successful>>

\* The approval stream has ended: select_all over tool_futures begins.  The
\* gate's result is not read again.
ApprovalDone ==
    /\ pc = "approval"
    /\ UNCHANGED <<taskVars, promptVars, clientVars, postVars>>
    /\ provider_result' = None
    /\ mode_settings' = None
    /\ NextIn(NeedsApproval, idx) = 0
    /\ yielded' = <<>>
    /\ pc' = "select"
    /\ permission_check_result' = <<>>
    /\ idx' = 0
    /\ mgrRet' = NoRet
    /\ UNCHANGED <<extension_manager, AgentVars, loopVars, final_output_tool, tools, response,
                   tool_futures, message_tool_response, all_install_successful>>

enable_extension_request_ids ==
    { response[i].id : i \in { j \in DOMAIN response :
                                 response[j].tool_call = "Ok" /\ response[j].kind = "enable" } }

\* while let Some((request_id, item)) = combined.next().await: one item of
\* one of the streams.  A Message becomes an McpNotification event; a
\* Result becomes the request's tool response.
SelectItem ==
    /\ pc = "select"
    /\ UNCHANGED <<taskVars, promptVars, clientVars, postVars>>
    /\ provider_result' = None
    /\ mode_settings' = None
    /\ \E s \in tool_futures :
         \E item \in tool_stream_items(s) :
           LET t == tool_stream(s, item)
           IN  /\ tool_futures' = (tool_futures \ {s}) \cup {t}
               /\ IF item = "Message"
                     THEN /\ yielded' = <<McpNotification(s.id, "tool", s.turn)>>
                          /\ UNCHANGED <<message_tool_response, all_install_successful>>
                     ELSE /\ yielded' = <<>>
                          /\ message_tool_response' =
                                with_tool_response(message_tool_response, s.id,
                                                   tool_response_of(item))
                          /\ all_install_successful' =
                                IF s.id \in enable_extension_request_ids /\ item = "Err"
                                   THEN FALSE ELSE all_install_successful
    /\ UNCHANGED <<mgrVars, loopVars, final_output_tool, tools, response,
                   permission_check_result, idx, pc>>

\* combined has ended; with all_install_successful the tools and the prompt
\* are prepared again, and a failure of that ends the stream with its error
SelectDone ==
    /\ pc = "select"
    /\ UNCHANGED <<taskVars, promptVars, clientVars, postVars>>
    /\ provider_result' = None
    /\ mode_settings' = None
    /\ \A s \in tool_futures : tool_stream_items(s) = {}
    /\ \E prepared \in BOOLEAN :
          /\ ~all_install_successful => prepared
          /\ IF prepared
                THEN /\ tools' = IF all_install_successful
                                    THEN DOMAIN extension_manager.clients ELSE tools
                     /\ yielded' = <<>>
                     /\ pc' = "bundle"
                     /\ UNCHANGED turnVars
                ELSE /\ yielded' = <<StreamError>>
                     /\ pc' = "done"
                     /\ EndOfIteration
                     /\ UNCHANGED tools
    /\ UNCHANGED <<mgrVars, loopVars, final_output_tool>>

\* A variant of push_response_and_bundle that pushes the bundle only
push_bundle_only(history) == history \o <<"user">>

\* messages.push(response); messages.push(final_message_tool_resp)
push_response_and_bundle(history) == history \o <<"assistant", "user">>

\* The bundle is yielded, and the response and the bundle join the history;
\* the iteration's locals are dropped
EmitBundle ==
    /\ pc = "bundle"
    /\ UNCHANGED <<taskVars, promptVars, clientVars, postVars>>
    /\ provider_result' = None
    /\ mode_settings' = None
    /\ yielded' = <<Message("user", "tool_responses")>>
    /\ messages' = push_response_and_bundle(messages)
    /\ pc' = "top"
    /\ EndOfIteration
    /\ UNCHANGED <<mgrVars, goose_mode, max_turns, final_output_tool, turns_taken,
                   provider_calls, tools, mcp_notification_rx>>

-----------------------------------------------------------------------------
(* Cancellation *)

\* Where the reply stream can be when its consumer drops it: created and not
\* yet polled, or suspended in one of the steps of the loop
SuspensionPoints ==
    {"idle", "top", "drain", "generate", "frontend", "frontend_wait", "chat",
     "approved", "approval", "approval_wait", "select", "bundle"}

\* A variant of Cancel in which the dropped stream still yields a message
\* telling of the cancellation
Cancel_with_notice ==
    /\ pc \in SuspensionPoints
    /\ pc' = "cancelled"
    /\ yielded' = <<Message("assistant", "cancelled")>>
    /\ mgrRet' = [NoRet EXCEPT !.op = "drop", !.step = pc]
    /\ provider_result' = None
    /\ mode_settings' = None
    /\ goose_mode' = "auto"
    /\ max_turns' = 0
    /\ turns_taken' = 0
    /\ messages' = <<"user">>
    /\ tools' = {}
    /\ response' = <<>>
    /\ permission_check_result' = <<>>
    /\ idx' = 0
    /\ tool_futures' = {}
    /\ message_tool_response' = <<>>
    /\ all_install_successful' = TRUE
    /\ UNCHANGED <<extension_manager, AgentVars, final_output_tool, provider_calls,
                   mcp_notification_rx, taskVars, promptVars, clientVars, postVars>>

\* The consumer drops the stream reply() returned: the generator of
\* try_stream! is dropped where it is suspended, and with it its locals (the
\* history, the counters, the tool list, the futures and streams of the
\* turn's tool calls, which nothing polls any more, the bundle being built).
\* The dropped locals take the values they have before a reply.  The agent's
\* fields stay as they are.
Cancel ==
    /\ pc \in SuspensionPoints
    /\ pc' = "cancelled"
    /\ yielded' = <<>>
    /\ mgrRet' = [NoRet EXCEPT !.op = "drop", !.step = pc]
    /\ provider_result' = None
    /\ mode_settings' = None
    /\ goose_mode' = "auto"
    /\ max_turns' = 0
    /\ turns_taken' = 0
    /\ messages' = <<"user">>
    /\ tools' = {}
    /\ response' = <<>>
    /\ permission_check_result' = <<>>
    /\ idx' = 0
    /\ tool_futures' = {}
    /\ message_tool_response' = <<>>
    /\ all_install_successful' = TRUE
    /\ UNCHANGED <<extension_manager, AgentVars, final_output_tool, provider_calls,
                   mcp_notification_rx, taskVars, promptVars, clientVars, postVars>>

-----------------------------------------------------------------------------
(* Specifications *)

NextMgr ==
    \/ MgrAddExtension
    \/ MgrRemoveExtension
    \/ MgrDispatchToolCall
    \/ MgrAwaitResult
    \/ MgrGetPrefixedTools
    \/ AgentListTools
    \/ MgrReadResource
    \/ MgrListResources

\* The extension manager on its own
SpecMgr == Init /\ [][NextMgr]_vars

NextNames ==
    \/ MgrNormalize
    \/ NamesAddExtension
    \/ MgrRemoveExtension

\* The names of the extensions
SpecNames == Init /\ [][NextNames]_vars

NextMany ==
    \/ ManyAddExtension
    \/ MgrSuggestDisable

\* The extension manager with many extensions loaded
SpecMany == Init /\ [][NextMany]_vars

NextAgentExt ==
    \/ AgentAddFrontend
    \/ AgentAddExtension
    \/ UpdateRouterToolSelector
    \/ MgrRemoveExtension

\* The agent's extension operations, with and without a tool router
SpecAgentExt == Init /\ [][NextAgentExt]_vars

NextReply ==
    \/ AddFinalOutputTool
    \/ ReplyStart
    \/ LoopTop
    \/ SubagentNotify
    \/ Drain
    \/ Generate
    \/ FrontendRequest
    \/ FrontendAnswer
    \/ RemainingPhase
    \/ DispatchApproved
    \/ DeclineDenied
    \/ ConfirmationRequest
    \/ ConfirmationAnswer
    \/ ApprovalDone
    \/ SelectItem
    \/ SelectDone
    \/ EmitBundle

\* One reply of the agent
SpecReply == Init /\ [][NextReply]_vars

\* One reply of the agent whose consumer polls the stream to its end, every
\* provider call returning, every tool stream delivering its result, every
\* frontend and confirmation request being answered
SpecReplyFair == Init /\ [][NextReply]_vars /\ WF_vars(NextReply)

NextReplyCancel ==
    \/ NextReply
    \/ Cancel

\* One reply of the agent, whose consumer may drop the stream
SpecReplyCancel == Init /\ [][NextReplyCancel]_vars

NextDispatch ==
    \/ AgentDispatchByName
    \/ AgentAddFrontend

\* The tool calls the agent dispatches by name
SpecDispatch == Init /\ [][NextDispatch]_vars

NextManage ==
    \/ AgentManageExtensions
    \/ mgrRet.result # "Blocked" /\ UpdateRouterToolSelector

\* The extensions the agent enables and disables on the model's request
SpecManage == Init /\ [][NextManage]_vars

NextTools ==
    \/ AddFinalOutputTool
    \/ AgentListTools
    \/ AgentBuildSystemPrompt
    \/ MgrAddExtension
    \/ MgrRemoveExtension

\* The tools and the system prompt of an agent that is not replying
SpecTools == Init /\ [][NextTools]_vars

-----------------------------------------------------------------------------
(* GoogleProvider::post *)

\* let max_retries = 3
max_retries == 3

\* let base_delay = Duration::from_secs(2), in seconds
base_delay == 2

\* What handle_response_google_compat makes of a response, and "SendError"
\* for a request that reqwest could not complete
PostResponses ==
    {"Ok", "RateLimitExceeded", "Authentication", "ContextLengthExceeded",
     "ServerError", "RequestFailed", "SendError"}

\* A variant of retries_exceeded that allows one more retry
retries_exceeded_one_late(retries) == retries > max_retries + 1

\* if retries > max_retries
retries_exceeded(retries) == retries > max_retries

\* post is called: the base URL is parsed and joined with the endpoint;
\* either may fail, and then RequestFailed is returned with no request sent
PostStart(i) ==
    \E url \in {"ok", "Invalid base URL", "Failed to construct endpoint URL"} :
      /\ Post(i).pc = "idle"
      /\ posts' = Insert(posts, i,
            IF url = "ok" THEN [IdlePost EXCEPT !.pc = "send"]
            ELSE [IdlePost EXCEPT !.pc = "returned", !.result = "RequestFailed"])
      /\ UNCHANGED <<mgrVars, replyVars, taskVars, promptVars, clientVars>>

\* The top of the loop: the request is sent and awaited
PostSend(i) ==
    \E res \in PostResponses :
      /\ Post(i).pc = "send"
      /\ posts' = [posts EXCEPT ![i] =
            [@ EXCEPT !.pc = "response", !.attempts = @ + 1, !.response = res]]
      /\ UNCHANGED <<mgrVars, replyVars, taskVars, promptVars, clientVars>>

\* match response: a result is returned, an error other than a rate limit
\* is returned, and a rate limit is counted and leads to a sleep unless the
\* retries are used up
PostMatch(i) ==
    LET p == Post(i) IN
    /\ p.pc = "response"
    /\ posts' = [posts EXCEPT ![i] =
          CASE p.response = "Ok" -> [p EXCEPT !.pc = "returned", !.result = "Ok"]
            [] p.response = "SendError" ->
                  [p EXCEPT !.pc = "returned", !.result = "RequestFailed"]
            [] p.response = "RateLimitExceeded" ->
                  IF retries_exceeded(p.retries + 1)
                  THEN [p EXCEPT !.pc = "returned", !.retries = @ + 1,
                                 !.result = "RateLimitExceeded"]
                  ELSE [p EXCEPT !.pc = "sleep", !.retries = @ + 1,
                                 !.total_delay = 2 ^ (p.retries + 1) + base_delay]
            [] OTHER -> [p EXCEPT !.pc = "returned", !.result = p.response]]
    /\ UNCHANGED <<mgrVars, replyVars, taskVars, promptVars, clientVars>>

\* tokio::time::sleep(total_delay) is over; continue
PostWake(i) ==
    /\ Post(i).pc = "sleep"
    /\ posts' = [posts EXCEPT ![i] = [@ EXCEPT !.pc = "send"]]
    /\ UNCHANGED <<mgrVars, replyVars, taskVars, promptVars, clientVars>>

NextPost ==
    \E i \in PostIds :
      \/ PostStart(i)
      \/ PostSend(i)
      \/ PostMatch(i)
      \/ PostWake(i)

\* Calls of GoogleProvider::post; every request is answered or fails, and
\* every sleep ends
SpecPost == Init /\ [][NextPost]_vars /\ WF_vars(NextPost)

-----------------------------------------------------------------------------
(* The mutex of each client *)

\* The operations of the manager that call a client.  Each gives the client
\* operations it runs, grouped by the guard they run under:
\* dispatch_tool_call subscribes under a guard it drops at once and calls
\* the tool under a second guard inside the future it returns; the task
\* get_prefixed_tools spawns lists every page of tools under one guard;
\* read_resource_from_extension reads under one guard.
ManagerCalls ==
    [dispatch_tool_call |-> << <<"subscribe">>, <<"call_tool">> >>,
     get_prefixed_tools |-> << <<"list_tools">> >>,
     get_prefixed_tools_paged |-> << <<"list_tools", "list_tools">> >>,
     read_resource_from_extension |-> << <<"read_resource">> >>]

\* A variant of mutex_free in which lock() never waits
mutex_free_always(mutex, c) == TRUE

\* Mutex::lock returns a guard only when no guard of the mutex is alive
mutex_free(mutex, c) == c \notin DOMAIN mutex

\* An operation of the manager starts on a client and reaches
\* client.lock().await
ClientStart ==
    \E i \in CallIds, c \in ClientIds, op \in DOMAIN ManagerCalls :
      /\ Call(i).pc = "idle"
      /\ client_calls' = Insert(client_calls, i,
             [client |-> Some(c), ops |-> ManagerCalls[op], pc |-> "lock"])
      /\ UNCHANGED <<client_mutex, mgrVars, replyVars, taskVars, promptVars, postVars>>

\* client.lock().await returns the guard and the call on the client starts
ClientLock ==
    \E i \in CallIds, c \in ClientIds :
      /\ Call(i).pc = "lock"
      /\ Call(i).client = Some(c)
      /\ mutex_free(client_mutex, c)
      /\ client_mutex' = Insert(client_mutex, c, i)
      /\ client_calls' = [client_calls EXCEPT ![i].pc = "call"]
      /\ UNCHANGED <<mgrVars, replyVars, taskVars, promptVars, postVars>>

\* The call on the client returns.  The next call under the same guard
\* starts, or the guard is dropped and the next guard is asked for, or the
\* operation is over.
ClientReturn ==
    \E i \in CallIds, c \in ClientIds :
      LET call == Call(i)
          section == Tail(Head(call.ops))
      IN  /\ call.pc = "call"
          /\ call.client = Some(c)
          /\ IF section # <<>>
             THEN /\ client_calls' = [client_calls EXCEPT
                        ![i].ops = <<section>> \o Tail(call.ops)]
                  /\ UNCHANGED client_mutex
             ELSE /\ client_mutex' = Remove(client_mutex, c)
                  /\ client_calls' =
                        IF Tail(call.ops) = <<>> THEN Remove(client_calls, i)
                        ELSE [client_calls EXCEPT ![i] =
                                [call EXCEPT !.ops = Tail(call.ops), !.pc = "lock"]]
          /\ UNCHANGED <<mgrVars, replyVars, taskVars, promptVars, postVars>>

NextClients ==
    \/ ClientStart
    \/ ClientLock
    \/ ClientReturn

\* The operations of the manager on its clients, run at the same time
SpecClients == Init /\ [][NextClients]_vars

-----------------------------------------------------------------------------
(* The locks of the agent *)

\* The locks the operations below take.  The extension manager is behind a
\* read/write lock, the others are mutexes.
RwRead == "extension_manager.read"

RwWrite == "extension_manager.write"

\* What an operation awaits.  A provider completion, a client's resource or
\* tool call, a subagent run and the consumer's next poll of the stream can
\* each take for ever.
Blocking == {"provider", "client", "subagent", "consumer"}

Lock(l) == <<"lock", l>>

\* The guard goes out of scope
Drop(l) == <<"drop", l>>

Await(x) == <<"await", x>>

\* The function returns: every guard it holds goes out of scope
Return == <<"return", "">>

\* if let Some(monitor) = self.tool_monitor.lock().await.as_mut(): the guard
\* lives to the end of the if let
monitor_check == <<Lock("tool_monitor"), Drop("tool_monitor")>>

\* Agent::manage_extensions: the write guard lives to the return; the
\* selector's guard is a temporary of its statement; with a tool router the
\* read lock is asked for while the write guard is held
manage_extensions_locks(router) ==
    <<Lock(RwWrite), Lock("router_tool_selector"), Drop("router_tool_selector")>>
        \o (IF router THEN <<Lock(RwRead), Await("router_index"), Drop(RwRead)>> ELSE <<>>)
        \o <<Await("extension"), Return>>

\* Agent::add_extension: a frontend extension takes the two frontend mutexes
\* and any other the write lock, whose guard lives to the end of the match
\* arm; with a tool router the read lock is then taken for the indexing
add_extension_locks(frontend, router) ==
    (IF frontend
        THEN <<Lock("frontend_tools"), Lock("frontend_instructions"),
               Drop("frontend_instructions"), Drop("frontend_tools")>>
        ELSE <<Lock(RwWrite), Await("extension"), Drop(RwWrite)>>)
        \o <<Lock("router_tool_selector"), Drop("router_tool_selector")>>
        \o (IF router THEN <<Lock(RwRead), Await("router_index")>> ELSE <<>>)
        \o <<Return>>

\* Agent::remove_extension: the write guard lives to the return; with a tool
\* router the read lock is asked for while it is held
remove_extension_locks(router) ==
    <<Lock(RwWrite), Await("extension"),
      Lock("router_tool_selector"), Drop("router_tool_selector")>>
        \o (IF router THEN <<Lock(RwRead), Await("router_index")>> ELSE <<>>)
        \o <<Return>>

\* Agent::update_router_tool_selector called without a provider: a read
\* guard lives to the return; when a strategy is configured the selector is
\* created, a second read guard is taken for the indexing and the selector
\* is stored
update_router_tool_selector_locks(strategy) ==
    <<Lock(RwRead), Lock("provider"), Drop("provider")>>
        \o (IF strategy
               THEN <<Await("selector"), Lock(RwRead), Await("router_index"),
                      Lock("router_tool_selector"), Drop("router_tool_selector")>>
               ELSE <<>>)
        \o <<Return>>

\* Agent::list_tools: the read guard lives to the return, over the listing
\* of the clients' tools; without an extension name the sub-recipe manager
\* and the final-output tool are read
list_tools_locks(all) ==
    <<Lock(RwRead), Await("client")>>
        \o (IF all
               THEN <<Lock("sub_recipe_manager"), Lock("final_output_tool"),
                      Drop("final_output_tool")>>
               ELSE <<>>)
        \o <<Return>>

\* Agent::dispatch_tool_call from `let extension_manager =
\* self.extension_manager.read().await` on: both guards live to the return.
\* The future an extension tool call returns is awaited by the caller, after
\* the return.
dispatch_after_locks(tool) ==
    <<Lock(RwRead), Lock("sub_recipe_manager")>>
        \o (CASE tool = "sub_recipe" -> <<Await("sub_recipe")>>
              [] tool \in {"read_resource", "list_resources"} -> <<Await("client")>>
              [] tool = "search_available_extensions" -> <<Await("config")>>
              [] tool = "subagent" -> <<Await("subagent")>>
              [] tool = "frontend" -> <<Lock("frontend_tools"), Drop("frontend_tools")>>
              [] tool = "router_search" ->
                    <<Lock("frontend_tools"), Drop("frontend_tools"),
                      Lock("router_tool_selector"), Drop("router_tool_selector"),
                      Await("selector")>>
              [] OTHER -> <<Lock("frontend_tools"), Drop("frontend_tools")>>)
        \o <<Return>>
        \o (IF tool = "extension" THEN <<Await("client")>> ELSE <<>>)

ToolKinds ==
    {"schedule", "manage_extensions", "final_output", "sub_recipe", "read_resource",
     "list_resources", "search_available_extensions", "subagent", "frontend",
     "router_search", "extension"}

\* Agent::dispatch_tool_call for a tool of the kind: what it locks, drops and
\* awaits, in order.  rejected: the repetition monitor rejects the call;
\* flag: a tool router is enabled (manage_extensions), a final-output tool is
\* registered (final_output).
dispatch_tool_call_locks(tool, rejected, flag) ==
    monitor_check \o
    ( IF rejected THEN <<Return>>
      ELSE CASE tool = "schedule" -> <<Await("scheduler"), Return>>
             [] tool = "manage_extensions" -> manage_extensions_locks(flag)
             [] tool = "final_output" ->
                    <<Lock("final_output_tool")>>
                        \o (IF flag THEN <<Await("final_output_tool")>> ELSE <<>>)
                        \o <<Return>>
             [] OTHER -> dispatch_after_locks(tool) )

\* Agent::create_recipe up to the provider's answer
create_recipe_locks ==
    <<Lock(RwRead), Await("extensions_info"),
      Lock("provider"), Drop("provider"),
      Lock("prompt_manager"),
      Lock("frontend_instructions"), Drop("frontend_instructions"),
      Await("list_tools"), Await("recipe_prompt"), Await("list_tools"),
      Lock("provider"), Await("provider"), Drop("provider"),
      Return>>

\* One turn of Agent::reply without tool requests: the provider call, the
\* yield of the response, and the final-output branch, whose guard lives to
\* the end of the if let, over the yield inside it.  registered: a
\* final-output tool is registered.
reply_turn_locks(registered) ==
    <<Lock("provider"), Drop("provider"), Await("provider"),
      Lock("provider"), Drop("provider"),
      Await("consumer"),
      Lock("final_output_tool")>>
        \o (IF registered THEN <<Await("consumer")>> ELSE <<>>)
        \o <<Drop("final_output_tool"), Return>>

\* The operations a task may run, with their inputs
TaskOps ==
    { [op |-> "dispatch_tool_call", tool |-> k, rejected |-> r, flag |-> f] :
        k \in ToolKinds, r \in BOOLEAN, f \in BOOLEAN }
      \cup { [op |-> "create_recipe", tool |-> "none", rejected |-> FALSE, flag |-> FALSE] }
      \cup { [op |-> "reply", tool |-> "none", rejected |-> FALSE, flag |-> f] : f \in BOOLEAN }
      \cup { [op |-> "add_extension", tool |-> k, rejected |-> FALSE, flag |-> f] :
                k \in {"frontend", "extension"}, f \in BOOLEAN }
      \cup { [op |-> o, tool |-> "none", rejected |-> FALSE, flag |-> f] :
                o \in {"remove_extension", "update_router_tool_selector", "list_tools"},
                f \in BOOLEAN }

LocksOf(o) ==
    CASE o.op = "dispatch_tool_call" -> dispatch_tool_call_locks(o.tool, o.rejected, o.flag)
      [] o.op = "create_recipe" -> create_recipe_locks
      [] o.op = "reply" -> reply_turn_locks(o.flag)
      [] o.op = "add_extension" -> add_extension_locks(o.tool = "frontend", o.flag)
      [] o.op = "remove_extension" -> remove_extension_locks(o.flag)
      [] o.op = "update_router_tool_selector" -> update_router_tool_selector_locks(o.flag)
      [] o.op = "list_tools" -> list_tools_locks(o.flag)

\* tokio's Mutex and RwLock: a guard is given when no guard that excludes it
\* is held, by this task or another
CanLock(held, l) ==
    IF l = RwRead THEN RwWrite \notin held
    ELSE IF l = RwWrite THEN held \cap {RwRead, RwWrite} = {}
    ELSE l \notin held

\* A task begins an operation
TaskStart ==
    /\ task = IdleTask
    /\ \E o \in TaskOps :
          task' = [op |-> o, pos |-> 1, held |-> {}, awaiting |-> "none"]
    /\ UNCHANGED <<mgrVars, replyVars, promptVars, clientVars, postVars>>

\* The task takes a lock or a guard goes out of scope
TaskLock ==
    /\ task # IdleTask
    /\ task.awaiting = "none"
    /\ task.pos <= Len(LocksOf(task.op))
    /\ LET ins == LocksOf(task.op)[task.pos]
       IN  /\ ins[1] \in {"lock", "drop", "return"}
           /\ ins[1] = "lock" => CanLock(task.held, ins[2])
           /\ task' = [task EXCEPT !.pos = task.pos + 1,
                                   !.held = CASE ins[1] = "lock" -> task.held \cup {ins[2]}
                                              [] ins[1] = "drop" -> task.held \ {ins[2]}
                                              [] OTHER -> {}]
    /\ UNCHANGED <<mgrVars, replyVars, promptVars, clientVars, postVars>>

\* The task reaches an .await and is suspended
TaskAwait ==
    /\ task # IdleTask
    /\ task.awaiting = "none"
    /\ task.pos <= Len(LocksOf(task.op))
    /\ LocksOf(task.op)[task.pos][1] = "await"
    /\ task' = [task EXCEPT !.awaiting = LocksOf(task.op)[task.pos][2]]
    /\ UNCHANGED <<mgrVars, replyVars, promptVars, clientVars, postVars>>

\* What the task awaits is ready
TaskResume ==
    /\ task # IdleTask
    /\ task.awaiting # "none"
    /\ task' = [task EXCEPT !.awaiting = "none", !.pos = task.pos + 1]
    /\ UNCHANGED <<mgrVars, replyVars, promptVars, clientVars, postVars>>

\* The operation is over
TaskEnd ==
    /\ task # IdleTask
    /\ task.pos > Len(LocksOf(task.op))
    /\ task' = IdleTask
    /\ UNCHANGED <<mgrVars, replyVars, promptVars, clientVars, postVars>>

NextLocks ==
    \/ TaskStart
    \/ TaskLock
    \/ TaskAwait
    \/ TaskResume
    \/ TaskEnd

\* The locks one operation of the agent takes and what it awaits
SpecLocks == Init /\ [][NextLocks]_vars

\* The same, when every lock that can be given is given and everything
\* awaited becomes ready
SpecLocksFair == SpecLocks /\ WF_vars(NextLocks)

-----------------------------------------------------------------------------
(* Properties of the extension manager *)

LoadedKeys == DOMAIN extension_manager.clients

\* The loaded keys k for which the name begins with k + "__"
OwningKeys(name) == { k \in LoadedKeys : StartsWith(name, k \o Sep) }

\* C2: a dispatch of k__t, k a loaded key and t a tool name, selects the
\* client registered under k and, once the result is awaited, has called
\* call_tool on that client with the stripped name t.
C2_PrefixRoundTrip ==
    \A k \in LoadedKeys, t \in ToolNames :
        mgrRet.arg = Prefixed(k, t) =>
            /\ mgrRet.op = "dispatch_tool_call" =>
                  /\ mgrRet.result = "Ok"
                  /\ mgrRet.client = Some(k)
                  /\ mgrRet.tool = Some(t)
            /\ mgrRet.op = "tool_result" =>
                  mgrRet.called = Some([client |-> k, tool |-> t])

\* C3: an unknown prefix gets NotFound and no call_tool; a name that begins
\* with a loaded key + "__" is dispatched, and when the client does not know
\* the tool the result future yields an ExecutionError.
C3_NotFoundOrExecutionError ==
    /\ (mgrRet.op = "dispatch_tool_call" /\ OwningKeys(mgrRet.arg) = {}) =>
            /\ mgrRet.result = "NotFound"
            /\ mgrRet.client = None
    /\ mgrRet.op = "tool_result" => OwningKeys(mgrRet.arg) # {}
    /\ (mgrRet.op = "dispatch_tool_call" /\ OwningKeys(mgrRet.arg) # {}) =>
            mgrRet.result = "Ok"
    /\ \A k \in OwningKeys(mgrRet.arg) :
          LET t == SubSeq(mgrRet.arg, Len(k) + 3, Len(mgrRet.arg))
          IN  (mgrRet.op = "tool_result" /\ t \notin extension_manager.clients[k].tools) =>
                  mgrRet.result = "ExecutionError"

\* C4: every key of the instructions map and every member of the
\* resource-capable set is a key of the clients map.
C4_ManagerConsistency ==
    /\ DOMAIN extension_manager.instructions \subseteq LoadedKeys
    /\ extension_manager.resource_capable_extensions \subseteq LoadedKeys

\* An extension was removed, next to loaded ones with instructions and the
\* resource capability
C4_Witness ==
    /\ mgrRet.op = "remove_extension"
    /\ mgrRet.loaded
    /\ DOMAIN extension_manager.instructions # {}
    /\ extension_manager.resource_capable_extensions # {}
    /\ LoadedKeys # Keys

\* C5: a step that is a failed add_extension leaves the clients map, the
\* instructions map and the resource-capable set as they were.
C5_FailedAddChangesNothing ==
    [][(mgrRet'.op = "add_extension" /\ mgrRet'.result # "Ok")
            => extension_manager' = extension_manager]_vars

\* add_extension failed at initialize for a key that is loaded, with
\* instructions and the resource capability, from an earlier call
C5_Witness ==
    /\ mgrRet.op = "add_extension"
    /\ mgrRet.step = "initialize"
    /\ mgrRet.result = "Initialization"
    /\ normalize(mgrRet.arg) \in DOMAIN extension_manager.instructions
    /\ normalize(mgrRet.arg) \in extension_manager.resource_capable_extensions

\* C6: a step in which Agent::add_extension returns an error leaves the set
\* of loaded extensions as it was.
C6_AgentAddErrorKeepsLoaded ==
    [][(mgrRet'.op = "Agent::add_extension" /\ mgrRet'.result # "Ok")
            => DOMAIN extension_manager'.clients = DOMAIN extension_manager.clients]_vars

\* The keys in any of the three tables
AnyTable(m) ==
    DOMAIN m.clients \cup DOMAIN m.instructions \cup m.resource_capable_extensions

\* C7: a remove_extension step returns Ok, leaves the normalised key in none
\* of the three tables and the other keys' entries as they were; on a key
\* that is in no table (never loaded, or removed before) it changes nothing,
\* and so does a second call right after the first.
C7_RemoveIdempotentTotal ==
    [][mgrRet'.op = "remove_extension" =>
          LET key == normalize(mgrRet'.arg)
          IN  /\ mgrRet'.result = "Ok"
              /\ key \notin AnyTable(extension_manager')
              /\ \A k \in Keys \ {key} :
                    /\ k \in DOMAIN extension_manager'.clients <=> k \in LoadedKeys
                    /\ k \in DOMAIN extension_manager'.instructions
                          <=> k \in DOMAIN extension_manager.instructions
                    /\ k \in extension_manager'.resource_capable_extensions
                          <=> k \in extension_manager.resource_capable_extensions
              /\ key \notin AnyTable(extension_manager) => extension_manager' = extension_manager
              /\ (mgrRet.op = "remove_extension" /\ normalize(mgrRet.arg) = key)
                    => extension_manager' = extension_manager]_vars

\* A loaded extension was removed while two others, both with the resource
\* capability, stay
C7_Witness ==
    /\ mgrRet.op = "remove_extension"
    /\ mgrRet.loaded
    /\ mgrRet.result = "Ok"
    /\ normalize(mgrRet.arg) \notin AnyTable(extension_manager)
    /\ Cardinality(LoadedKeys) = 2
    /\ Cardinality(extension_manager.resource_capable_extensions) = 2

-----------------------------------------------------------------------------
(* Properties of Agent::reply *)

CapMessage == Message("assistant", "cap")

ResponsesFor(id) ==
    { j \in DOMAIN message_tool_response : message_tool_response[j].id = id }

\* C8: when the bundle of a turn is emitted it holds exactly one tool
\* response for each request id of the turn's assistant response.
C8_ExactlyOneResponse ==
    pc = "bundle" =>
        \A i \in DOMAIN response : Cardinality(ResponsesFor(response[i].id)) = 1

\* C9: outside chat mode, a request whose tool_call is an error has an error
\* tool response under its id in the turn's bundle.
C9_UnparseableAnswered ==
    (pc = "bundle" /\ goose_mode # "chat") =>
        \A i \in DOMAIN response :
            response[i].tool_call = "Err" =>
                \E j \in ResponsesFor(response[i].id) : message_tool_response[j].kind = "error"

\* The streams of this turn that have not yielded their result
LiveStreams == { s \in tool_futures : ~s.done }

\* C10: an McpNotification event carries the subagent id of a notification
\* just drained, or the request id of a tool call dispatched in the current
\* turn whose stream has not yielded its result and which has no tool
\* response in the bundle yet.
C10_NotificationScoping ==
    \A n \in DOMAIN yielded :
        yielded[n].type = "McpNotification" =>
            \/ /\ yielded[n].kind = "subagent"
               /\ yielded[n].id \in SubagentIds
               /\ pc = "generate"
            \/ /\ yielded[n].kind = "tool"
               /\ yielded[n].turn = turns_taken
               /\ \E i \in DOMAIN response : response[i].id = yielded[n].id
               /\ \E s \in LiveStreams : s.id = yielded[n].id /\ s.turn = turns_taken
               /\ ResponsesFor(yielded[n].id) = {}

\* In a second turn, a tool's notification is yielded for one request while
\* the other request of the turn already has its response
C10_Witness ==
    /\ pc = "select"
    /\ turns_taken = 2
    /\ Len(yielded) = 1
    /\ yielded[1].type = "McpNotification"
    /\ yielded[1].kind = "tool"
    /\ Len(message_tool_response) = 1
    /\ message_tool_response[1].id # yielded[1].id

-----------------------------------------------------------------------------
(* Properties of Agent::reply: the events of a provider call *)

ModelChangesIn(events) == { n \in DOMAIN events : events[n].type = "ModelChange" }

ResponseMessage == Message("assistant", "response")

\* What holds of every ModelChange event whatever follows it: a lead-worker
\* provider answered in this step, the event carries usage.model, and it is
\* the only ModelChange of the turn
ModelChangeOfUsage(n) ==
    /\ provider_result # None
    /\ \A r \in provider_result : r.lead_worker /\ yielded[n].id = r.model
    /\ ModelChangesIn(yielded) = {n}

\* C11: every ModelChange event is followed at once, in the same turn, by
\* the turn's assistant Message, and carries the model of the turn's usage;
\* a provider that is not lead-worker has no ModelChange emitted.
C11_ModelChangeOrdering ==
    \A n \in ModelChangesIn(yielded) :
        /\ ModelChangeOfUsage(n)
        /\ n < Len(yielded)
        /\ yielded[n + 1] = ResponseMessage

\* C11 as amended: the ModelChange is followed by the turn's assistant
\* Message, or, when recording the session metrics fails, by the error that
\* ends the stream.
C11_ModelChangeOrderingAmended ==
    \A n \in ModelChangesIn(yielded) :
        /\ ModelChangeOfUsage(n)
        /\ n < Len(yielded)
        /\ \/ yielded[n + 1] = ResponseMessage
           \/ /\ yielded[n + 1] = StreamError
              /\ pc = "done"
              /\ \A r \in provider_result : r.outcome = "MetricsError"

\* In a second turn a lead-worker provider answered with the worker model
\* and tool requests: the ModelChange comes right before the response
C11_Witness ==
    /\ turns_taken = 2
    /\ pc = "frontend"
    /\ Len(yielded) = 2
    /\ yielded[1] = ModelChange(WorkerModel, "worker")
    /\ yielded[2] = ResponseMessage
    /\ provider_result = Some([outcome |-> "Ok", model |-> WorkerModel, lead_worker |-> TRUE,
                               requests |-> 1])

MessagesIn(events) == { n \in DOMAIN events : events[n].type = "Message" }

\* The provider answered with a response (not an error) in the last step
ProviderResponded(r) == r.outcome \in {"Ok", "MetricsError"}

\* No step is taken once the stream has ended
StreamEnds == [][pc # "done"]_vars

\* No Message event is emitted before the first provider call has been made
NoMessageBeforeFirstCall ==
    (provider_calls = 0 /\ pc # "done") => MessagesIn(yielded) = {}

\* The step of the first provider call ended the stream with the response as
\* its one Message event
FirstResponseEndsStream ==
    /\ pc = "done"
    /\ provider_calls = 1
    /\ MessagesIn(yielded) = {Len(yielded)}
    /\ yielded[Len(yielded)] = ResponseMessage

ProviderReturned(outcome) == \E r \in provider_result : r.outcome = outcome

\* C13: when the provider returns ContextLengthExceeded the stream emits
\* exactly one further event, the assistant context-length-exceeded message,
\* and ends: no provider call follows and the message history is left as it
\* was.
C13_ContextLengthExceeded ==
    /\ [][ProviderReturned("ContextLengthExceeded")'
            => /\ yielded' = <<Message("assistant", "context_length_exceeded")>>
               /\ pc' = "done"
               /\ messages' = messages
               /\ provider_calls' = provider_calls + 1]_vars
    /\ StreamEnds

\* The provider call of the second turn returned ContextLengthExceeded
C13_Witness ==
    /\ ProviderReturned("ContextLengthExceeded")
    /\ turns_taken = 2
    /\ provider_calls = 2
    /\ messages = <<"user", "assistant", "user">>
    /\ yielded = <<Message("assistant", "context_length_exceeded")>>
    /\ pc = "done"

\* C14: when the provider returns an error other than ContextLengthExceeded
\* the stream emits exactly one assistant text message that describes the
\* error and ends: the call is not tried again.
C14_OtherProviderError ==
    /\ [][ProviderReturned("Error")'
            => /\ yielded' = <<Message("assistant", "error")>>
               /\ pc' = "done"
               /\ provider_calls' = provider_calls + 1]_vars
    /\ StreamEnds

\* The first provider call returned an error other than ContextLengthExceeded
C14_Witness ==
    /\ ProviderReturned("Error")
    /\ turns_taken = 1
    /\ provider_calls = 1
    /\ yielded = <<Message("assistant", "error")>>
    /\ pc = "done"

(* Properties of Agent::reply: the modes and the permission partition *)

\* In chat mode the permission gate has not run, no stream of a dispatched
\* call exists, and the loop is in none of the steps that dispatch
ChatModeDispatchesNothing ==
    goose_mode = "chat" =>
        /\ permission_check_result = <<>>
        /\ tool_futures = {}
        /\ pc \notin {"approved", "approval", "approval_wait", "select"}

\* In chat mode the bundle holds exactly one response, the skipped response,
\* for every request that is not a frontend request
ChatModeSkipsEach ==
    (goose_mode = "chat" /\ pc = "bundle") =>
        \A i \in remaining_requests(response) :
            /\ Cardinality(ResponsesFor(RequestId(i))) = 1
            /\ \A j \in ResponsesFor(RequestId(i)) : message_tool_response[j].kind = "skipped"

\* In chat mode no step rebuilds the tools or changes the extensions
ChatModeRebuildsNothing ==
    [][goose_mode = "chat" => tools' = tools /\ extension_manager' = extension_manager]_vars

\* C15: with GOOSE_MODE=chat or execution_mode=background the loop is in chat
\* mode, where no request other than a frontend request is dispatched (neither
\* check_tool_permissions nor dispatch_tool_call runs), each such request has
\* exactly one skipped response in the bundle, and tools and system prompt
\* are not rebuilt.
C15_ChatMode ==
    /\ [](/\ \A st \in mode_settings :
                (st.GOOSE_MODE = "chat" \/ st.execution_mode = Some("background"))
                    => goose_mode = "chat"
          /\ ChatModeDispatchesNothing
          /\ ChatModeSkipsEach)
    /\ ChatModeRebuildsNothing

\* C15 as amended: the same for execution_mode=background, or GOOSE_MODE=chat
\* with an execution_mode that is not foreground.
C15_ChatModeAmended ==
    /\ [](/\ \A st \in mode_settings :
                (\/ st.execution_mode = Some("background")
                 \/ st.GOOSE_MODE = "chat" /\ st.execution_mode # Some("foreground"))
                    => goose_mode = "chat"
          /\ ChatModeDispatchesNothing
          /\ ChatModeSkipsEach)
    /\ ChatModeRebuildsNothing

\* Chat mode, an enable request and an unparseable request of the second
\* turn, both answered with the skipped response
C15_Witness ==
    /\ goose_mode = "chat"
    /\ pc = "bundle"
    /\ turns_taken = 2
    /\ response = <<[id |-> RequestId(1), tool_call |-> "Ok", kind |-> "enable"],
                    [id |-> RequestId(2), tool_call |-> "Err", kind |-> "none"]>>
    /\ message_tool_response = <<[id |-> RequestId(1), kind |-> "skipped"],
                                 [id |-> RequestId(2), kind |-> "skipped"]>>
    /\ tools = DOMAIN extension_manager.clients

\* Agent::dispatch_tool_call has been called for the request id in this turn:
\* its stream is in tool_futures
Dispatched(id) == \E s \in tool_futures : s.id = id

DeclinedResponsesFor(id) ==
    { j \in ResponsesFor(id) : message_tool_response[j].kind = "declined" }

\* The loops over approved and denied and the approval stream have all ended
ApprovalStreamEnded == pc = "approval" /\ NextIn(NeedsApproval, idx) = 0

\* C16: a request the gate put in denied is never dispatched and its tool
\* response is the declined response; a request the gate put in approved is
\* dispatched, and no confirmation request is made for it; no request id is
\* both dispatched and answered with the declined response.
C16_PermissionPartition ==
    /\ [](/\ ApprovalStreamEnded =>
                /\ \A i \in Denied :
                      /\ ~Dispatched(response[i].id)
                      /\ ResponsesFor(response[i].id) # {}
                      /\ ResponsesFor(response[i].id) = DeclinedResponsesFor(response[i].id)
                /\ \A i \in Approved : Dispatched(response[i].id)
          /\ \A i \in DOMAIN response :
                ~(Dispatched(response[i].id) /\ DeclinedResponsesFor(response[i].id) # {}))
    /\ [][(pc' = "approval_wait" /\ pc = "approval")
            => /\ yielded' = <<Message("user", "confirmation_request")>>
               /\ idx' \in NeedsApproval]_vars

(* Properties of Agent::reply: the streams of the tool calls and the bundle *)

\* The tool responses recorded from a Result item of the stream of `id`
ResultsFor(id) ==
    { j \in ResponsesFor(id) : message_tool_response[j].kind \in {"result", "error"} }

\* C17: the stream tool_stream builds for a tool call yields exactly one
\* Result item, as its last item, and no McpNotification of the request id is
\* emitted once the result is recorded, whether the call sends no
\* notification, stops sending before its result, or has more to send when
\* the result arrives.
C17_ResultIsLast ==
    /\ [](/\ \A s \in tool_futures :
                IF s.done
                    THEN /\ Cardinality(ResultsFor(s.id)) = 1
                         /\ ResponsesFor(s.id) = ResultsFor(s.id)
                         /\ tool_stream_items(s) = {}
                    ELSE ResponsesFor(s.id) = {}
          /\ pc = "bundle" => \A s \in tool_futures : s.done)
    /\ [][\A n \in DOMAIN yielded' :
            (yielded'[n].type = "McpNotification" /\ yielded'[n].kind = "tool")
                => /\ ResponsesFor(yielded'[n].id) = {}
                   /\ \E s \in tool_futures :
                        /\ s.id = yielded'[n].id
                        /\ ~s.done
                        /\ s.notifs
                        /\ tool_futures' = (tool_futures \ {s}) \cup {tool_stream(s, "Message")}]_vars

\* Two calls' streams have ended with their one result: one sent all the
\* notifications it had before the result, the result of the other came
\* while it had more to send
C17_Witness ==
    /\ pc = "select"
    /\ Cardinality(tool_futures) = 2
    /\ \A s \in tool_futures : s.done /\ s.notifs /\ Cardinality(ResultsFor(s.id)) = 1
    /\ \E s \in tool_futures : s.sent = MaxNotifications
    /\ \E s \in tool_futures : s.sent < MaxNotifications

ToolResponseBundle == Message("user", "tool_responses")

\* The step in which the bundle of the turn is emitted: every stream of the
\* turn's tool calls has ended, the bundle is the one event, and the response
\* and the bundle are pushed on the history
BundleStep ==
    /\ pc = "bundle"
    /\ response # <<>>
    /\ \A s \in tool_futures : s.done
    /\ yielded' = <<ToolResponseBundle>>
    /\ messages' = messages \o <<"assistant", "user">>
    /\ provider_calls' = provider_calls
    /\ pc' = "top"

\* The step in which an error ends the stream
ErrorStep == yielded' = <<StreamError>> /\ pc' = "done" /\ messages' = messages

\* A bundle is emitted, and the history changed, in a BundleStep only; no
\* provider call is made while the turn's requests are being handled
BundleOnlyAtEndOfTurn ==
    /\ [][(\E n \in DOMAIN yielded' : yielded'[n] = ToolResponseBundle) => BundleStep]_vars
    /\ [][messages' # messages => BundleStep]_vars
    /\ [][provider_calls' # provider_calls => response = <<>> /\ pc = "generate"]_vars

SucceededEnableRequests ==
    { i \in DOMAIN response :
        /\ response[i].id \in enable_extension_request_ids
        /\ \E j \in ResultsFor(response[i].id) : message_tool_response[j].kind = "result" }

\* C19: in a turn in which an enable-extension request succeeded, whether or
\* not another one failed, tools and system prompt have been rebuilt when the
\* bundle is emitted, before the next provider call: the tool list holds the
\* tools of every loaded extension, the newly enabled one among them.
C19_RebuildAfterEnable ==
    (pc = "bundle" /\ SucceededEnableRequests # {}) =>
        /\ normalize(ReplyExtension) \in tools
        /\ tools = DOMAIN extension_manager.clients

\* The last step was a call of Agent::dispatch_tool_call that the repetition
\* monitor rejected
RejectedByMonitor ==
    mgrRet.op = "Agent::dispatch_tool_call" /\ mgrRet.step = "tool_monitor"

\* A stream of the turn stays in tool_futures, with its request id and its
\* result, until the turn ends
StreamsStay ==
    [][(pc \in {"approved", "approval", "approval_wait", "select"} /\ pc' # "done")
        => \A s \in tool_futures :
              \E t \in tool_futures' : t.id = s.id /\ t.turn = s.turn /\ t.result = s.result]_vars

DispatchSucceeded ==
    mgrRet.op = "Agent::dispatch_tool_call" /\ mgrRet.result = "Ok"

\* C21: every successful tool result Agent::dispatch_tool_call returns,
\* whatever the kind of the tool, is mapped through the large-response
\* handler before it reaches the bundle.
C21_LargeResponseHandled ==
    DispatchSucceeded => mgrRet.processed

\* The last step was a call of Agent::dispatch_tool_call that returned an
\* error
DispatchFailed ==
    mgrRet.op = "Agent::dispatch_tool_call" /\ mgrRet.result = "ExecutionError"

ErrorResponsesFor(id) ==
    { j \in ResponsesFor(id) : message_tool_response[j].kind = "error" }

\* The stream of a dispatched call of this turn has ended with an error
TurnHasDispatchError ==
    \E s \in tool_futures : s.done /\ ErrorResponsesFor(s.id) # {}

\* A call that returns an error leaves the stream running and joins
\* tool_futures as a stream of that error; the error of a stream that has
\* ended is the one tool response of its request id
DispatchErrorIsToolResponse ==
    /\ [][DispatchFailed' =>
            /\ Stream(mgrRet'.arg, turns_taken, "Err", FALSE) \in tool_futures'
            /\ yielded' = <<>>
            /\ pc' \notin {"done", "failed"}]_vars
    /\ [](\A s \in tool_futures :
            (s.done /\ s.result = "Err") =>
                /\ Cardinality(ResponsesFor(s.id)) = 1
                /\ ResponsesFor(s.id) = ErrorResponsesFor(s.id))

AgentLocks ==
    {RwRead, RwWrite, "sub_recipe_manager", "provider", "prompt_manager", "final_output_tool"}

\* C23: while a task awaits a provider completion, a client's resource or
\* tool call, a subagent run or the consumer's next poll of the event stream,
\* it holds none of the agent's locks.
C23_ScopedLocks ==
    task.awaiting \in Blocking => task.held \cap AgentLocks = {}

-----------------------------------------------------------------------------
(* Properties of the listings *)

\* The tools of all extensions have been listed
ListedAll ==
    /\ mgrRet.op \in {"get_prefixed_tools", "Agent::list_tools"}
    /\ mgrRet.filter = None

\* The listing holds every tool of the loaded extension `key` under its
\* prefixed name
ListsToolsOf(key) ==
    \A t \in extension_manager.clients[key].tools :
        [key |-> key, name |-> Prefixed(key, t)] \in mgrRet.listed

\* C24: when the tools of all extensions are listed and list_tools fails on
\* the client of one loaded extension while the others answer, the listing
\* holds the prefixed tools of every other loaded extension.
C24_FailureIsolation ==
    ListedAll /\ Cardinality(mgrRet.failed) = 1 =>
        \A key \in DOMAIN extension_manager.clients \ mgrRet.failed : ListsToolsOf(key)

-----------------------------------------------------------------------------
(* Properties of the resource calls *)

\* A resource was read, or the resources were listed, with no extension named
ResourcesSearched ==
    /\ mgrRet.op \in {"read_resource", "list_resources"}
    /\ mgrRet.uri
    /\ mgrRet.filter = None

\* The resource-capable extensions whose client answered the call
ResourceAnswers ==
    (extension_manager.resource_capable_extensions \cap DOMAIN extension_manager.clients)
        \ mgrRet.failed

\* C25: with no extension named, read_resource and list_resources succeed
\* exactly when at least one resource-capable extension answers; when none
\* does, or there is none, the error lists the loaded extensions.
C25_ResourceSearch ==
    ResourcesSearched =>
        /\ mgrRet.result = "Ok" <=> ResourceAnswers # {}
        /\ ResourceAnswers = {} => mgrRet.candidates = DOMAIN extension_manager.clients

-----------------------------------------------------------------------------
(* Properties of the advice to disable extensions *)

\* The number of loaded clients
LoadedCount == Cardinality(DOMAIN extension_manager.clients)

\* The number of prefixed tools of the loaded clients, 0 when a client fails
\* to list its tools
TotalTools ==
    IF mgrRet.failed # {} THEN 0
    ELSE Cardinality(UNION { { <<k, t>> : t \in extension_manager.clients[k].tools } :
                             k \in DOMAIN extension_manager.clients })

\* C26: suggest_disable_extensions_prompt returns a non-empty string exactly
\* when more than 5 clients are loaded or they list more than 50 tools in
\* total; the total is 0 when listing the tools fails.
C26_SuggestDisable ==
    mgrRet.op = "suggest_disable_extensions_prompt" =>
        /\ mgrRet.prompt.text # "" <=> LoadedCount > 5 \/ TotalTools > 50
        /\ mgrRet.prompt.total_tools = TotalTools

\* Exactly 5 extensions with exactly 50 tools: the empty string
C26_Witness ==
    /\ mgrRet.op = "suggest_disable_extensions_prompt"
    /\ LoadedCount = 5
    /\ TotalTools = 50
    /\ mgrRet.prompt.text = ""

-----------------------------------------------------------------------------
(* Properties of the names *)

\* [a-z0-9_-]
NormalChars == AsciiLower \cup AsciiDigit \cup {"_", "-"}

\* The keys of the three tables of the manager
TableKeys ==
    DOMAIN extension_manager.clients \cup DOMAIN extension_manager.instructions
        \cup extension_manager.resource_capable_extensions

\* C27: normalize is idempotent and its output holds only characters of
\* [a-z0-9_-], whatever the input; add_extension and remove_extension key the
\* manager's tables by the normalised name.
C27_Normalize ==
    /\ mgrRet.op = "normalize" =>
          /\ normalize(mgrRet.normalized) = mgrRet.normalized
          /\ \A i \in 1..Len(mgrRet.normalized) : mgrRet.normalized[i] \in NormalChars
    /\ mgrRet.op = "add_extension" /\ mgrRet.result = "Ok" =>
          /\ normalize(mgrRet.arg) \in DOMAIN extension_manager.clients
          /\ normalize(mgrRet.arg) \in DOMAIN extension_manager.instructions
          /\ normalize(mgrRet.arg) \in extension_manager.resource_capable_extensions
    /\ mgrRet.op = "remove_extension" => normalize(mgrRet.arg) \notin TableKeys
    /\ \A key \in TableKeys : normalize(key) = key

\* A string with an upper-case letter, a space and a non-ASCII character has
\* been normalised
C27_Witness ==
    /\ mgrRet.op = "normalize"
    /\ mgrRet.arg = <<"B", " ", "<U+1F680>">>
    /\ mgrRet.normalized = <<"b", "_">>

-----------------------------------------------------------------------------
(* Properties of the cancellation *)

\* The step in which the consumer drops the stream yields no event, calls no
\* provider, dispatches no tool call and leaves the extensions as they are
SilentDrop ==
    [][pc' = "cancelled" =>
          /\ yielded' = <<>>
          /\ provider_calls' = provider_calls
          /\ provider_result' = None
          /\ mgrRet'.op = "drop"
          /\ tool_futures' = {}
          /\ extension_manager' = extension_manager]_vars

\* Nothing happens once the stream is dropped
NothingAfterDrop == [][pc # "cancelled"]_vars

-----------------------------------------------------------------------------
(* Properties of Agent::reply: the end of the stream *)

\* The step ends the stream with a response that holds no tool request
EndsByToolFreeResponse ==
    /\ pc = "generate"
    /\ \E r \in provider_result' : r.outcome = "Ok" /\ r.requests = 0

\* The step ends the stream with the message of a provider error
EndsByProviderError ==
    /\ pc = "generate"
    /\ \E r \in provider_result' : r.outcome \in {"ContextLengthExceeded", "Error"}

\* The step ends the stream with the message of the turn cap
EndsByCap == pc = "top" /\ yielded' = <<CapMessage>>

\* The step ends the stream with an error the loop propagates
EndsByError == yielded' # <<>> /\ yielded'[Len(yielded')] = StreamError

\* reply() has returned an error, or its stream has ended
ReplyOver == pc \in {"done", "failed"}

-----------------------------------------------------------------------------
(* Properties of Agent::reply: approved calls and confirmations *)

\* The streams of the approved requests whose result a client's call_tool
\* decides.  The future ExtensionManager::dispatch_tool_call returns is an
\* async block, boxed and not spawned, inside a tool_stream that is a lazy
\* stream as well: call_tool is made when the stream is first polled.
ApprovedClientCalls ==
    { s \in tool_futures :
        /\ s.result = "pending"
        /\ \E i \in Approved : response[i].id = s.id }

\* C30: in a turn with approved requests and requests needing approval, the
\* client call of every approved request is under way, and can deliver its
\* notifications and its result, while the user's answer to a confirmation
\* request is awaited.
C30_ApprovedRunFirst ==
    (pc = "approval_wait" /\ ApprovedClientCalls # {}) => ENABLED SelectItem

-----------------------------------------------------------------------------
(* Properties of Agent::reply: the final-output tool *)

-----------------------------------------------------------------------------
(* Properties of the tools and the system prompt of the agent *)

\* The last call of Agent::list_tools returned the final-output tool
ListsFinalOutputTool(ret) ==
    \E t \in ret.listed : t.name = FINAL_OUTPUT_TOOL_NAME /\ t.key = FINAL_OUTPUT_TOOL_NAME

\* C32: a call of Agent::list_tools without an extension name returns the
\* final-output tool exactly when add_final_output_tool has been called, a
\* call with an extension name never returns it, and once
\* add_final_output_tool has been called every system prompt that is built
\* contains the system prompt of the final-output tool.
C32_FinalOutputListed ==
    /\ [][mgrRet'.op = "Agent::list_tools" =>
            IF mgrRet'.filter = None
            THEN ListsFinalOutputTool(mgrRet') <=> final_output_tool # None
            ELSE ~ListsFinalOutputTool(mgrRet')]_vars
    /\ [](final_output_tool # None =>
            FinalOutputSystemPrompt \in build_system_prompt(system_prompt_extras))
    /\ [][(mgrRet'.op = "build_system_prompt" /\ final_output_tool # None) =>
            FinalOutputSystemPrompt \in mgrRet'.system_prompt]_vars

\* The final-output tool was added and the tools of the agent and of an
\* extension were then listed without a filter
C32_Witness ==
    /\ final_output_tool # None
    /\ mgrRet.op = "Agent::list_tools"
    /\ mgrRet.filter = None
    /\ ListsFinalOutputTool(mgrRet)
    /\ FinalOutputSystemPrompt \in build_system_prompt(system_prompt_extras)
    /\ extension_manager.clients # << >>

-----------------------------------------------------------------------------
(* Properties of the mutex of each client *)

\* The calls in flight on a client
InFlight(c) ==
    { i \in CallIds : Call(i).pc = "call" /\ Call(i).client = Some(c) }

\* C33: the calls on one client are serialised by its mutex: at most one of
\* call_tool, list_tools, read_resource and subscribe is in flight on a
\* client at any time, and it is the call that holds the guard.
C33_ClientSerialised ==
    \A c \in ClientIds :
      /\ Cardinality(InFlight(c)) <= 1
      /\ \A i \in InFlight(c) : c \in DOMAIN client_mutex /\ client_mutex[c] = i

\* Two tool calls on one client, one in flight and the other waiting for the
\* guard, while a call on the other client is in flight too
C33_Witness ==
    \E i, j, k \in CallIds :
      /\ InFlight(<<"a">>) = {i}
      /\ Head(Head(Call(i).ops)) = "call_tool"
      /\ Call(j).client = Some(<<"a">>)
      /\ Call(j).pc = "lock"
      /\ Call(j).ops = << <<"call_tool">> >>
      /\ InFlight(<<"b">>) = {k}

-----------------------------------------------------------------------------
(* Properties of Agent::reply: the notifications of the subagents *)

\* A buffered notification with both data.subagent_id and data.message
HasIdAndMessage(n) == n.subagent_id # None /\ n.message

\* C34: every turn within the cap starts by taking every buffered subagent
\* notification off the channel; those with both data.subagent_id and
\* data.message are yielded as McpNotification events in the order they were
\* sent and the others are dropped; the provider is called only after that.
C34_DrainBeforeProvider ==
    /\ [][(pc = "top" /\ pc' # "done") => pc' = "drain"]_vars
    /\ [][(pc = "drain" /\ pc' # "drain") =>
            LET kept == SelectSeq(mcp_notification_rx, HasIdAndMessage)
            IN  /\ pc' = "generate"
                /\ mcp_notification_rx' = <<>>
                /\ provider_calls' = provider_calls
                /\ Len(yielded') = Len(kept)
                /\ \A i \in DOMAIN kept :
                      /\ yielded'[i].type = "McpNotification"
                      /\ Some(yielded'[i].id) = kept[i].subagent_id]_vars
    /\ [][provider_calls' # provider_calls =>
            (pc = "generate" /\ mcp_notification_rx = <<>>)]_vars

\* The notifications of two subagents were drained in the second turn and
\* yielded in the order they were sent
C34_Witness ==
    /\ pc = "generate"
    /\ turns_taken = 2
    /\ mcp_notification_rx = <<>>
    /\ Len(yielded) = 2
    /\ yielded[1].type = "McpNotification"
    /\ yielded[1].id = <<"sub", 2>>
    /\ yielded[2].id = <<"sub", 1>>

-----------------------------------------------------------------------------
(* Properties of Agent::manage_extensions *)

\* C35: a call of platform__manage_extensions whose action is neither
\* `enable` nor `disable` leaves the set of loaded extensions as it was.
C35_UnknownActionChangesNothing ==
    [][(mgrRet'.op = "manage_extensions" /\ mgrRet'.action \notin {"enable", "disable"}) =>
          DOMAIN extension_manager'.clients = DOMAIN extension_manager.clients]_vars

-----------------------------------------------------------------------------
(* Properties of GoogleProvider::post *)

\* C36: post retries only after a rate-limit error: a call sends at most
\* 1 + 3 requests and returns RateLimitExceeded when the fourth is rate
\* limited too; a result, any other error and a request that could not be
\* sent are returned at once; every call returns.
C36_BoundedRetry ==
    /\ [](\A i \in PostIds :
            /\ Post(i).attempts <= 1 + max_retries
            /\ Post(i).retries <= Post(i).attempts
            /\ (Post(i).pc = "returned" /\ Post(i).response = "RateLimitExceeded") =>
                 (Post(i).attempts = 1 + max_retries /\ Post(i).result = "RateLimitExceeded")
            /\ Post(i).pc = "sleep" => Post(i).response = "RateLimitExceeded")
    /\ [][\A i \in PostIds :
            (Post(i).pc = "response" /\ Post(i).response # "RateLimitExceeded"
               /\ Post(i)' # Post(i)) =>
                 /\ Post(i)'.pc = "returned"
                 /\ Post(i)'.attempts = Post(i).attempts
                 /\ Post(i)'.result =
                      IF Post(i).response = "SendError" THEN "RequestFailed"
                      ELSE Post(i).response]_vars
    /\ [][\A i \in PostIds :
            (Post(i).pc = "response" /\ Post(i).response = "RateLimitExceeded"
               /\ Post(i).attempts < 1 + max_retries /\ Post(i)' # Post(i)) =>
                 Post(i)'.pc = "sleep"]_vars
    /\ \A i \in PostIds : (Post(i).pc # "idle") ~> (Post(i).pc = "returned")

\* A call returned RateLimitExceeded after its fourth request while another
\* returned a result after one retry
C36_Witness ==
    \E i, j \in PostIds :
      /\ Post(i).pc = "returned"
      /\ Post(i).result = "RateLimitExceeded"
      /\ Post(i).attempts = 4
      /\ Post(j).pc = "returned"
      /\ Post(j).result = "Ok"
      /\ Post(j).attempts = 2

-----------------------------------------------------------------------------
(* Properties of the lock of the extension manager *)

\* The operations that take the lock of the extension manager
ManagerLockOps ==
    { o \in TaskOps :
        \/ o.op \in {"add_extension", "remove_extension", "update_router_tool_selector",
                     "list_tools"}
        \/ o.op = "dispatch_tool_call" /\ ~o.rejected /\ o.tool \notin {"schedule", "final_output"} }

\* C37: add_extension, remove_extension, manage_extensions,
\* update_router_tool_selector, list_tools and dispatch_tool_call, with or
\* without a tool router, never wait for ever for the lock of the extension
\* manager: each of them returns.
C37_DeadlockFree ==
    \A o \in ManagerLockOps :
        (task # IdleTask /\ task.op = o) ~> (task = IdleTask)

-----------------------------------------------------------------------------
(* Properties of ExtensionManager::add_extension on a loaded key *)

\* C38: when add_extension succeeds for a name whose normalised key is
\* already loaded, the key's client is the new client, the key has
\* instructions exactly when the new client gave some, and then those, and
\* the key is resource capable exactly when the new client is.
C38_ReAddReplaces ==
    [][(/\ mgrRet'.op = "add_extension"
        /\ mgrRet'.result = "Ok"
        /\ normalize(mgrRet'.arg) \in DOMAIN extension_manager.clients) =>
          LET k == normalize(mgrRet'.arg)
              init == CHOOSE i \in mgrRet'.init : TRUE
              m == extension_manager'
          IN  /\ m.clients[k] = init.client
              /\ k \in DOMAIN m.instructions <=> init.instructions # None
              /\ k \in DOMAIN m.instructions => Some(m.instructions[k]) = init.instructions
              /\ k \in m.resource_capable_extensions <=> init.resources]_vars

-----------------------------------------------------------------------------
(* Properties of Agent::reply: the history after a continuation *)

\* The step in which the response had no tool request and the loop continues
\* because the final-output tool has captured no output
ContinuationStep ==
    /\ pc = "generate"
    /\ pc' = "top"
    /\ final_output_tool = Some(None)
    /\ \E r \in provider_result' : r.outcome = "Ok" /\ r.requests = 0

\* C39: when the loop continues because the final-output tool has no output
\* yet, the assistant's response and the continuation message are added to
\* the history, so the next provider call of the reply gets a history
\* different from the one this call got.
C39_ContinuationInHistory ==
    /\ [][ContinuationStep => messages' = messages \o <<"assistant", "user">>]_vars
    /\ [][(pc = "generate" /\ pc' = "top") => messages' # messages]_vars

-----------------------------------------------------------------------------
(* Properties of Agent::dispatch_tool_call: the names the agent answers *)

\* The names the agent answers itself
Builtin == UNION { BuiltinNames[b] : b \in DOMAIN BuiltinNames }

=============================================================================
